---- MODULE Spec2Model ----
(***************************************************************************)
(* A model of the search-filter-sort pipeline of scripts/datahub_search.py *)
(* (apply_filters, _parse_odata_date, _get_item_refresh_time, sort_items). *)
(*                                                                         *)
(* Python strings are tuples of one-character strings, so that lower(),    *)
(* upper(), slicing, substring containment, int() and strptime() are       *)
(* computed character by character.  A JSON value is a record              *)
(* [t, s, n]: t is "missing" (key absent), "null", "str", "int" or "bool". *)
(* A Python exception is an outcome of the operator that raises it.        *)
(***************************************************************************)
EXTENDS Integers, Sequences, FiniteSets, TLC

----------------------------------------------------------------------------
(* Characters and Python's str operations *)

\* The characters of the model's strings, in code-point order.
UpperLetters ==
    << "A", "B", "C", "D", "E", "F", "G", "H", "I", "J", "K", "L", "M",
       "N", "O", "P", "Q", "R", "S", "T", "U", "V", "W", "X", "Y", "Z" >>
LowerLetters ==
    << "a", "b", "c", "d", "e", "f", "g", "h", "i", "j", "k", "l", "m",
       "n", "o", "p", "q", "r", "s", "t", "u", "v", "w", "x", "y", "z" >>
AlphabetSeq ==
    << " ", "(", ")", "-", "/",
       "0", "1", "2", "3", "4", "5", "6", "7", "8", "9", ":" >>
    \o UpperLetters \o LowerLetters

Chars == { AlphabetSeq[i] : i \in 1..Len(AlphabetSeq) }

\* The rank of a character in code-point order (str comparison compares code points).
Rank == [ c \in Chars |-> CHOOSE i \in 1..Len(AlphabetSeq) : AlphabetSeq[i] = c ]

Digits == { "0", "1", "2", "3", "4", "5", "6", "7", "8", "9" }

DigitVal(c) == Rank[c] - Rank["0"]

\* str.lower() and str.upper() on one character.
LowerMap ==
    [ c \in Chars |->
        IF \E i \in 1..26 : UpperLetters[i] = c
        THEN LowerLetters[CHOOSE i \in 1..26 : UpperLetters[i] = c] ELSE c ]
UpperMap ==
    [ c \in Chars |->
        IF \E i \in 1..26 : LowerLetters[i] = c
        THEN UpperLetters[CHOOSE i \in 1..26 : LowerLetters[i] = c] ELSE c ]

LowerChar(c) == LowerMap[c]

UpperChar(c) == UpperMap[c]

Lower(s) == [ i \in 1..Len(s) |-> LowerChar(s[i]) ]

Upper(s) == [ i \in 1..Len(s) |-> UpperChar(s[i]) ]

\* sub in s
Contains(sub, s) ==
    \E k \in 0..(Len(s) - Len(sub)) : SubSeq(s, k + 1, k + Len(sub)) = sub

StartsWith(s, p) == Len(s) >= Len(p) /\ SubSeq(s, 1, Len(p)) = p

EndsWith(s, p) == Len(s) >= Len(p) /\ SubSeq(s, Len(s) - Len(p) + 1, Len(s)) = p

\* s[:n]
Prefix(s, n) == SubSeq(s, 1, IF Len(s) < n THEN Len(s) ELSE n)

\* a < b for str: the first differing code point decides, a proper prefix is smaller.
RECURSIVE StrLess(_, _)
StrLess(a, b) ==
    IF b = << >> THEN FALSE
    ELSE IF a = << >> THEN TRUE
    ELSE IF a[1] # b[1] THEN Rank[a[1]] < Rank[b[1]]
    ELSE StrLess(Tail(a), Tail(b))

----------------------------------------------------------------------------
(* datetime: an instant is [t |-> "dt", day, ms], day counted from          *)
(* 1970-01-01 and ms the milliseconds into that day.  The other outcomes    *)
(* are "None" and the exceptions "ValueError" and "OverflowError".          *)

MsPerDay == 86400000

\* datetime.min is 0001-01-01; fromtimestamp (which probes one day back for the
\* fold) accepts instants from 0001-01-02 on, and up to 9999-12-31.
MinTimestampDay == 0 - 719161
MaxDay == 2932896

DT(day, ms) == [ t |-> "dt", day |-> day, ms |-> ms ]
NoDT(t) == [ t |-> t, day |-> 0, ms |-> 0 ]

\* a >= b and a < b for two instants
DtGE(a, b) == a.day > b.day \/ (a.day = b.day /\ a.ms >= b.ms)
DtLT(a, b) == ~ DtGE(a, b)

IsLeap(y) == (y % 4 = 0 /\ y % 100 # 0) \/ y % 400 = 0

DaysInMonth(y, m) ==
    IF m = 2 THEN (IF IsLeap(y) THEN 29 ELSE 28)
    ELSE IF m \in {4, 6, 9, 11} THEN 30 ELSE 31

\* Days from 1970-01-01 to the civil date y-m-d (proleptic Gregorian), y >= 1.
DaysFromCivil(y, m, d) ==
    LET yy  == IF m <= 2 THEN y - 1 ELSE y
        era == yy \div 400
        yoe == yy - era * 400
        mp  == IF m > 2 THEN m - 3 ELSE m + 9
        doy == (153 * mp + 2) \div 5 + d - 1
        doe == yoe * 365 + yoe \div 4 - yoe \div 100 + doy
    IN  era * 146097 + doe - 719468

AllDigits(s) == \A i \in 1..Len(s) : s[i] \in Digits

RECURSIVE DigitsToNat(_)
DigitsToNat(s) ==
    IF s = << >> THEN 0 ELSE 10 * DigitsToNat(SubSeq(s, 1, Len(s) - 1)) + DigitVal(s[Len(s)])

\* The positions of "-" in s
DashPositions(s) == { i \in 1..Len(s) : s[i] = "-" }

\* datetime.strptime(s, "%Y-%m-%d"): four digits of year, a month of one or two
\* digits in 1..12, a day of one or two digits in 1..31 that exists in the month,
\* and nothing else; ValueError otherwise.
Strptime(s) ==
    IF ~ ( Len(s) >= 8 /\ Len(s) <= 10 /\ AllDigits(SubSeq(s, 1, 4)) /\ s[5] = "-" )
    THEN NoDT("ValueError")
    ELSE
      LET rest   == SubSeq(s, 6, Len(s))
          dashes == DashPositions(rest)
      IN  IF Cardinality(dashes) # 1 THEN NoDT("ValueError")
          ELSE
            LET p  == CHOOSE i \in dashes : TRUE
                ms == SubSeq(rest, 1, p - 1)
                ds == SubSeq(rest, p + 1, Len(rest))
            IN  IF ~ ( Len(ms) \in {1, 2} /\ Len(ds) \in {1, 2}
                       /\ AllDigits(ms) /\ AllDigits(ds) )
                THEN NoDT("ValueError")
                ELSE
                  LET y == DigitsToNat(SubSeq(s, 1, 4))
                      m == DigitsToNat(ms)
                      d == DigitsToNat(ds)
                  IN  IF y >= 1 /\ m >= 1 /\ m <= 12 /\ d >= 1 /\ d <= DaysInMonth(y, m)
                      THEN DT(DaysFromCivil(y, m, d), 0)
                      ELSE NoDT("ValueError")

----------------------------------------------------------------------------
(* int() and datetime.fromtimestamp(ms / 1000) *)

RECURSIVE StripZeros(_)
StripZeros(s) ==
    IF s # << >> /\ s[1] = "0" THEN StripZeros(Tail(s)) ELSE s

\* s without its leading and trailing spaces
RECURSIVE Strip(_)
Strip(s) ==
    IF s = << >> THEN s
    ELSE IF s[1] = " " THEN Strip(Tail(s))
    ELSE IF s[Len(s)] = " " THEN Strip(SubSeq(s, 1, Len(s) - 1))
    ELSE s

\* int(s) over the model's alphabet: surrounding spaces are dropped, then an
\* optional "-" and at least one digit.  The value is kept as its sign and its
\* digits without leading zeros.
PyInt(s) ==
    LET neg  == Strip(s) # << >> /\ Strip(s)[1] = "-"
        body == IF neg THEN Tail(Strip(s)) ELSE Strip(s)
    IN  IF body # << >> /\ AllDigits(body)
        THEN [ ok |-> TRUE, neg |-> neg /\ StripZeros(body) # << >>, digits |-> StripZeros(body) ]
        ELSE [ ok |-> FALSE, neg |-> FALSE, digits |-> << >> ]

\* a >= b for two natural numbers given as digits without leading zeros
RECURSIVE DigitsGE(_, _)
DigitsGE(a, b) ==
    IF Len(a) # Len(b) THEN Len(a) > Len(b)
    ELSE IF a = << >> THEN TRUE
    ELSE IF a[1] # b[1] THEN Rank[a[1]] > Rank[b[1]]
    ELSE DigitsGE(Tail(a), Tail(b))

\* ms / 1000 leaves the range of time_t (as a double) from (2^63 - 512) * 1000 up
\* and below -(2^63 + 1024) * 1000: fromtimestamp raises OverflowError there.
PosOverflowDigits ==
    << "9","2","2","3","3","7","2","0","3","6","8","5","4","7","7","5","2","9","6","0","0","0" >>
NegInRangeDigits ==
    << "9","2","2","3","3","7","2","0","3","6","8","5","4","7","7","6","8","3","2","0","0","0" >>

\* <<days, ms of day>> of a natural number of milliseconds given as digits
RECURSIVE DivModDay(_)
DivModDay(digits) ==
    IF digits = << >> THEN << 0, 0 >>
    ELSE LET prev == DivModDay(SubSeq(digits, 1, Len(digits) - 1))
             r    == prev[2] * 10 + DigitVal(digits[Len(digits)])
         IN  << prev[1] * 10 + r \div MsPerDay, r % MsPerDay >>

\* datetime.fromtimestamp(ms / 1000) in a process whose local zone is UTC.
FromTimestampMs(n) ==
    IF (~ n.neg /\ DigitsGE(n.digits, PosOverflowDigits))
       \/ (n.neg /\ n.digits # NegInRangeDigits /\ DigitsGE(n.digits, NegInRangeDigits))
    THEN NoDT("OverflowError")
    \* every instant of the years 1..9999 has at most 15 digits of milliseconds
    ELSE IF Len(n.digits) > 15 THEN NoDT("ValueError")
    ELSE
      LET qr  == DivModDay(n.digits)
          day == IF ~ n.neg THEN qr[1] ELSE IF qr[2] = 0 THEN 0 - qr[1] ELSE 0 - qr[1] - 1
          ms  == IF ~ n.neg \/ qr[2] = 0 THEN qr[2] ELSE MsPerDay - qr[2]
      IN  IF day >= MinTimestampDay /\ day <= MaxDay THEN DT(day, ms)
          ELSE NoDT("ValueError")

----------------------------------------------------------------------------
(* JSON values and dict access *)

Missing == [ t |-> "missing", s |-> << >>, n |-> 0 ]
Null == [ t |-> "null", s |-> << >>, n |-> 0 ]
StrV(s) == [ t |-> "str", s |-> s, n |-> 0 ]
IntV(n) == [ t |-> "int", s |-> << >>, n |-> n ]
BoolV(b) == [ t |-> "bool", s |-> << >>, n |-> IF b THEN 1 ELSE 0 ]

EmptyStr == StrV(<< >>)

\* The owner and artifact sub-records: t is "obj", or "missing" / "null" with no fields.
Owner(t, email, given, family) ==
    [ t |-> t, emailAddress |-> email, givenName |-> given, familyName |-> family ]
Artifact(t, cap, low, upd, sm, dl, sku) ==
    [ t |-> t, LastRefreshTime |-> cap, lastRefreshTime |-> low, lastUpdatedDate |-> upd,
      storageMode |-> sm, directLakeMode |-> dl, sharedFromEnterpriseCapacitySku |-> sku ]

\* The empty dict used as a default: item.get("ownerUser", {}), item.get("artifact", {})
EmptyOwner == Owner("obj", Missing, Missing, Missing)
EmptyArtifact == Artifact("obj", Missing, Missing, Missing, Missing, Missing, Missing)
MissingOwner == [ EmptyOwner EXCEPT !.t = "missing" ]
NullOwner == [ EmptyOwner EXCEPT !.t = "null" ]
MissingArtifact == [ EmptyArtifact EXCEPT !.t = "missing" ]
NullArtifact == [ EmptyArtifact EXCEPT !.t = "null" ]

\* d.get(key): None when the key is absent
Get(d, key) == IF d[key].t = "missing" THEN Null ELSE d[key]

\* d.get(key, default)
GetOr(d, key, default) == IF d[key].t = "missing" THEN default ELSE d[key]

\* bool(v) for a JSON value
Truthy(v) ==
    CASE v.t = "str" -> v.s # << >>
      [] v.t = "int" -> v.n # 0
      [] v.t = "bool" -> v.n = 1
      [] v.t = "obj" -> TRUE
      [] OTHER -> FALSE

----------------------------------------------------------------------------
(* _parse_odata_date *)

DatePrefix == << "/", "D", "a", "t", "e", "(" >>
DateSuffix == << ")", "/" >>

\* _parse_odata_date without the try around int() and fromtimestamp()
_parse_odata_date_unguarded(v) ==
    IF ~ Truthy(v) THEN NoDT("None")
    ELSE IF StartsWith(v.s, DatePrefix) /\ EndsWith(v.s, DateSuffix)
    THEN LET n == PyInt(SubSeq(v.s, 7, Len(v.s) - 2))
         IN  IF ~ n.ok THEN NoDT("ValueError") ELSE FromTimestampMs(n)
    ELSE LET r == Strptime(Prefix(v.s, 10))
         IN  IF r.t = "ValueError" THEN NoDT("None") ELSE r

\* _parse_odata_date(date_str) for None or a string: an instant, "None", or the
\* OverflowError that fromtimestamp raises and the function does not catch.
_parse_odata_date(v) ==
    IF ~ Truthy(v) THEN NoDT("None")
    ELSE IF StartsWith(v.s, DatePrefix) /\ EndsWith(v.s, DateSuffix)
    THEN LET n == PyInt(SubSeq(v.s, 7, Len(v.s) - 2))
         IN  IF ~ n.ok THEN NoDT("None")
             ELSE LET r == FromTimestampMs(n)
                  IN  IF r.t = "ValueError" THEN NoDT("None") ELSE r
    ELSE LET r == Strptime(Prefix(v.s, 10))
         IN  IF r.t = "ValueError" THEN NoDT("None") ELSE r

----------------------------------------------------------------------------
(* apply_filters *)

\* The outcome of one test of a list comprehension: "keep", "drop", or the
\* exception the test raises.
Raises(o) == o \notin { "keep", "drop" }

KeepIf(b) == IF b THEN "keep" ELSE "drop"

\* Comprehension with a record kept twice
RECURSIVE Comprehension_repeats(_, _)
Comprehension_repeats(items, outs) ==
    IF items = << >> THEN [ raised |-> "none", items |-> << >> ]
    ELSE IF Raises(outs[1]) THEN [ raised |-> outs[1], items |-> << >> ]
    ELSE LET rest == Comprehension_repeats(Tail(items), Tail(outs))
         IN  IF rest.raised # "none" THEN rest
             ELSE IF outs[1] = "keep"
                  THEN [ raised |-> "none", items |-> << items[1], items[1] >> \o rest.items ]
                  ELSE rest

\* [item for item in items if test(item)]: the items kept, or the first exception
RECURSIVE Comprehension(_, _)
Comprehension(items, outs) ==
    IF items = << >> THEN [ raised |-> "none", items |-> << >> ]
    ELSE IF Raises(outs[1]) THEN [ raised |-> outs[1], items |-> << >> ]
    ELSE LET rest == Comprehension(Tail(items), Tail(outs))
         IN  IF rest.raised # "none" THEN rest
             ELSE IF outs[1] = "keep"
                  THEN [ raised |-> "none", items |-> << items[1] >> \o rest.items ]
                  ELSE rest

\* needle in item.get(key, "").lower(), with needle lower-cased by the caller
InLower(needle, d, key) ==
    LET v == GetOr(d, key, EmptyStr)
    IN  IF v.t # "str" THEN "AttributeError" ELSE KeepIf(Contains(needle, Lower(v.s)))

\* a or b or ..., left to right, stopping at the first true operand or exception
RECURSIVE OrElse(_)
OrElse(outs) ==
    IF outs = << >> THEN "drop"
    ELSE IF outs[1] = "drop" THEN OrElse(Tail(outs))
    ELSE outs[1]

\* lines 358-359
name_matches(item, name_lower) ==
    OrElse(<< InLower(name_lower, item, "displayName"), InLower(name_lower, item, "name") >>)

\* line 367
workspace_matches(item, ws_lower) == InLower(ws_lower, item, "workspaceName")

\* lines 375-377
owner_matches(item, owner_lower) ==
    LET owner == GetOr(item, "ownerUser", EmptyOwner)
    IN  IF owner.t # "obj" THEN "AttributeError"
        ELSE OrElse(<< InLower(owner_lower, owner, "emailAddress"),
                       InLower(owner_lower, owner, "givenName"),
                       InLower(owner_lower, owner, "familyName") >>)

\* lines 386-387 (since = TRUE) and 398-399 (since = FALSE)
visited_matches(item, since_date, since) ==
    IF ~ Truthy(Get(item, "lastVisitedTimeUTC")) THEN "drop"
    ELSE LET dt == Strptime(Prefix(item.lastVisitedTimeUTC.s, 10))
         IN  IF dt.t # "dt" THEN dt.t
             ELSE KeepIf(IF since THEN DtGE(dt, since_date) ELSE DtLT(dt, since_date))

\* lines 408-419, and the same text again at lines 431-442
get_refresh_datetime(item) ==
    IF Truthy(Get(item, "lastRefreshTime")) THEN _parse_odata_date(item.lastRefreshTime)
    ELSE LET artifact == GetOr(item, "artifact", EmptyArtifact)
         IN  IF artifact.t # "obj" THEN NoDT("AttributeError")
             ELSE LET refresh_str == IF Truthy(Get(artifact, "LastRefreshTime"))
                                     THEN Get(artifact, "LastRefreshTime")
                                     ELSE Get(artifact, "lastRefreshTime")
                  IN  IF Truthy(refresh_str) THEN _parse_odata_date(refresh_str)
                      ELSE IF Truthy(Get(artifact, "lastUpdatedDate"))
                           THEN _parse_odata_date(artifact.lastUpdatedDate)
                           ELSE NoDT("None")

\* x and x >= since_date (since) or x and x < since_date (not since), for x a
\* datetime or None; an exception raised while computing x is the outcome
instant_matches(dt, since_date, since) ==
    IF dt.t = "None" THEN "drop"
    ELSE IF dt.t # "dt" THEN dt.t
    ELSE KeepIf(IF since THEN DtGE(dt, since_date) ELSE DtLT(dt, since_date))

\* lines 422 and 445
refreshed_matches(item, since_date, since) ==
    instant_matches(get_refresh_datetime(item), since_date, since)

\* lines 456-457 and 468-469
updated_matches(item, since_date, since) ==
    instant_matches(_parse_odata_date(Get(item, "modifiedDate")), since_date, since)

\* sm == k for a JSON value sm: True == 1 in Python
PyEqInt(v, k) == v.t \in { "int", "bool" } /\ v.n = k

s_import == << "i", "m", "p", "o", "r", "t" >>
s_directquery == << "d", "i", "r", "e", "c", "t", "q", "u", "e", "r", "y" >>
s_directlake == << "d", "i", "r", "e", "c", "t", "l", "a", "k", "e" >>

\* matches_storage with the numeric code tested before the direct-lake flag
matches_storage_code_first(item, mode_lower) ==
    LET artifact == GetOr(item, "artifact", EmptyArtifact)
    IN  IF artifact.t # "obj" THEN "AttributeError"
        ELSE LET sm == Get(artifact, "storageMode")
                 dl == GetOr(artifact, "directLakeMode", BoolV(FALSE))
             IN  IF PyEqInt(sm, 1) THEN KeepIf(mode_lower = s_import)
                 ELSE IF PyEqInt(sm, 2) THEN KeepIf(mode_lower = s_directquery)
                 ELSE KeepIf(mode_lower = s_directlake /\ Truthy(dl))

\* lines 477-487
matches_storage(item, mode_lower) ==
    LET artifact == GetOr(item, "artifact", EmptyArtifact)
    IN  IF artifact.t # "obj" THEN "AttributeError"
        ELSE LET sm == Get(artifact, "storageMode")
                 dl == GetOr(artifact, "directLakeMode", BoolV(FALSE))
             IN  IF mode_lower = s_import /\ PyEqInt(sm, 1) THEN "keep"
                 ELSE IF mode_lower = s_directquery /\ PyEqInt(sm, 2) THEN "keep"
                 ELSE IF mode_lower = s_directlake /\ Truthy(dl) THEN "keep"
                 ELSE "drop"

\* line 495
sku_matches(item, sku_upper) ==
    LET artifact == GetOr(item, "artifact", EmptyArtifact)
    IN  IF artifact.t # "obj" THEN "AttributeError"
        ELSE LET v == GetOr(artifact, "sharedFromEnterpriseCapacitySku", EmptyStr)
             IN  IF v.t # "str" THEN "AttributeError"
                 ELSE KeepIf(Contains(sku_upper, Upper(v.s)))

\* The working set of apply_filters: `raised` is "none" or the exception that
\* ended the call, `warnings` the filters whose warning was printed to stderr.
\* `rebound` tells whether `result` is a list built by a comprehension (TRUE) or
\* still the list object that was passed in (FALSE).
Working(items) == [ raised |-> "none", items |-> items, warnings |-> << >>, rebound |-> FALSE ]

\* result = [item for item in result if ...], outs the outcome of the test per item
Filter(w, outs) ==
    LET c == Comprehension(w.items, outs)
    IN  IF c.raised = "none" THEN [ w EXCEPT !.items = c.items, !.rebound = TRUE ]
        ELSE [ w EXCEPT !.raised = c.raised ]

FilterNames ==
    << "name_filter", "workspace_filter", "owner_filter", "visited_since",
       "not_visited_since", "refreshed_since", "not_refreshed_since", "updated_since",
       "not_updated_since", "storage_mode", "capacity_sku" >>

\* The test of the comprehension in the temporal block `which`
date_matches(which, item, since_date) ==
    CASE which = "visited_since" -> visited_matches(item, since_date, TRUE)
      [] which = "not_visited_since" -> visited_matches(item, since_date, FALSE)
      [] which = "refreshed_since" -> refreshed_matches(item, since_date, TRUE)
      [] which = "not_refreshed_since" -> refreshed_matches(item, since_date, FALSE)
      [] which = "updated_since" -> updated_matches(item, since_date, TRUE)
      [] which = "not_updated_since" -> updated_matches(item, since_date, FALSE)

\* TryFilter without its except clause: the ValueError leaves apply_filters
TryFilter_uncaught(w, boundary, which) ==
    LET since_date == Strptime(boundary.s)
    IN  IF since_date.t = "ValueError" THEN [ w EXCEPT !.raised = "ValueError" ]
        ELSE Filter(w, [ i \in 1..Len(w.items) |-> date_matches(which, w.items[i], since_date) ])

\* try: since_date = strptime(boundary); result = [...]
\* except ValueError: print the warning (result is left as it was)
TryFilter(w, boundary, which) ==
    LET since_date == Strptime(boundary.s)
        r == Filter(w, [ i \in 1..Len(w.items) |-> date_matches(which, w.items[i], since_date) ])
    IN  IF since_date.t = "ValueError" \/ r.raised = "ValueError"
        THEN [ w EXCEPT !.warnings = Append(@, which) ]
        ELSE r

\* The test of the comprehension in block k, one of the five blocks without a date
plain_matches(k, item, v) ==
    CASE k = 1 -> name_matches(item, Lower(v.s))
      [] k = 2 -> workspace_matches(item, Lower(v.s))
      [] k = 3 -> owner_matches(item, Lower(v.s))
      [] k = 10 -> matches_storage(item, Lower(v.s))
      [] k = 11 -> sku_matches(item, Upper(v.s))

\* apply_filters(items, **f) up to and including block k of its eleven blocks
RECURSIVE apply_blocks(_, _, _)
apply_blocks(items, f, k) ==
    IF k = 0 THEN Working(items)
    ELSE
      LET w == apply_blocks(items, f, k - 1)
          v == f[FilterNames[k]]
      IN  IF w.raised # "none" \/ ~ Truthy(v) THEN w
          ELSE IF k \in 4..9 THEN TryFilter(w, v, FilterNames[k])
          ELSE Filter(w, [ i \in 1..Len(w.items) |-> plain_matches(k, w.items[i], v) ])

apply_filters(items, f) == apply_blocks(items, f, Len(FilterNames))

----------------------------------------------------------------------------
(* sort_items *)

\* _get_item_refresh_time looking at the artifact's lastUpdatedDate before its
\* two refresh fields
_get_item_refresh_time_updated_first(item) ==
    IF Truthy(Get(item, "lastRefreshTime")) THEN item.lastRefreshTime
    ELSE LET artifact == GetOr(item, "artifact", EmptyArtifact)
         IN  IF artifact.t # "obj" THEN [ Null EXCEPT !.t = "AttributeError" ]
             ELSE IF Truthy(Get(artifact, "lastUpdatedDate")) THEN artifact.lastUpdatedDate
             ELSE IF Truthy(Get(artifact, "LastRefreshTime")) THEN artifact.LastRefreshTime
             ELSE IF Truthy(Get(artifact, "lastRefreshTime")) THEN artifact.lastRefreshTime
             ELSE Null

\* _get_item_refresh_time(item): the string to sort by, None, or the exception
_get_item_refresh_time(item) ==
    IF Truthy(Get(item, "lastRefreshTime")) THEN item.lastRefreshTime
    ELSE LET artifact == GetOr(item, "artifact", EmptyArtifact)
         IN  IF artifact.t # "obj" THEN [ Null EXCEPT !.t = "AttributeError" ]
             ELSE LET refresh_time == IF Truthy(Get(artifact, "LastRefreshTime"))
                                      THEN Get(artifact, "LastRefreshTime")
                                      ELSE Get(artifact, "lastRefreshTime")
                  IN  IF Truthy(refresh_time) THEN refresh_time
                      ELSE IF Truthy(Get(artifact, "lastUpdatedDate"))
                           THEN artifact.lastUpdatedDate
                           ELSE Null

\* v.lower() for the value v of a field: AttributeError for None
LowerValue(v) == IF v.t = "str" THEN StrV(Lower(v.s)) ELSE [ Null EXCEPT !.t = "AttributeError" ]

s_name == << "n", "a", "m", "e" >>
s_workspace == << "w", "o", "r", "k", "s", "p", "a", "c", "e" >>
s_last_visited == << "l", "a", "s", "t", "-", "v", "i", "s", "i", "t", "e", "d" >>
s_last_refreshed == << "l", "a", "s", "t", "-", "r", "e", "f", "r", "e", "s", "h", "e", "d" >>
s_last_modified == << "l", "a", "s", "t", "-", "m", "o", "d", "i", "f", "i", "e", "d" >>
s_owner == << "o", "w", "n", "e", "r" >>
s_asc == << "a", "s", "c" >>

SortFields == { s_name, s_workspace, s_last_visited, s_last_refreshed, s_last_modified, s_owner }

\* The key functions of lines 555-565: a string, None, or (t) the exception raised
sort_key(x, sort_by) ==
    CASE sort_by = s_name -> LowerValue(GetOr(x, "displayName", EmptyStr))
      [] sort_by = s_workspace -> LowerValue(GetOr(x, "workspaceName", EmptyStr))
      [] sort_by = s_last_visited -> GetOr(x, "lastVisitedTimeUTC", EmptyStr)
      [] sort_by = s_last_refreshed ->
            LET t == _get_item_refresh_time(x)
            IN  IF t.t = "AttributeError" \/ Truthy(t) THEN t ELSE EmptyStr
      [] sort_by = s_last_modified -> GetOr(x, "modifiedDate", EmptyStr)
      [] sort_by = s_owner ->
            LET owner == GetOr(x, "ownerUser", EmptyOwner)
            IN  IF owner.t # "obj" THEN [ Null EXCEPT !.t = "AttributeError" ]
                ELSE LowerValue(GetOr(owner, "emailAddress", EmptyStr))

\* line 552, with the direction inverted
is_reverse_inverted(sort_order) == Lower(sort_order) = s_asc

\* line 552: reverse = sort_order.lower() != "asc"
is_reverse(sort_order) == Lower(sort_order) # s_asc

Reverse(seq) == [ i \in 1..Len(seq) |-> seq[Len(seq) + 1 - i] ]

\* The positions `done`, already in key order, with position x inserted after
\* every position whose key is not greater: the step of a stable insertion sort
RECURSIVE InsertByKey(_, _, _)
InsertByKey(done, x, keys) ==
    IF done = << >> THEN << x >>
    ELSE IF StrLess(keys[x].s, keys[done[1]].s) THEN << x >> \o done
    ELSE << done[1] >> \o InsertByKey(Tail(done), x, keys)

RECURSIVE StableSort(_, _)
StableSort(positions, keys) ==
    IF positions = << >> THEN << >>
    ELSE InsertByKey(StableSort(SubSeq(positions, 1, Len(positions) - 1), keys),
                     positions[Len(positions)], keys)

\* sorted(reverse=True) taken as the ascending sort read backwards
sorted_positions_backwards(keys, reverse) ==
    LET asc == StableSort([ i \in 1..Len(keys) |-> i ], keys)
    IN  IF reverse THEN Reverse(asc) ELSE asc

\* The order in which sorted(items, key=..., reverse=reverse) returns the positions
\* of its input.  list.sort reverses the list, sorts it stably in ascending order and
\* reverses the result, so that equal keys keep their order in both directions.
sorted_positions(keys, reverse) ==
    LET identity == [ i \in 1..Len(keys) |-> i ]
    IN  IF reverse THEN Reverse(StableSort(Reverse(identity), keys))
        ELSE StableSort(identity, keys)

\* What sort_items returns: the new list and, for each of its places, the position
\* of that record in the input; or the exception raised by a key function
\* (AttributeError) or by comparing None with another key (TypeError).
Sorted(raised, list, order) == [ raised |-> raised, items |-> list, order |-> order ]

\* sort_items with the name order as the fallback for an unknown field
sort_items_by_name(list, sort_by, sort_order) ==
    LET keys  == [ i \in 1..Len(list) |-> sort_key(list[i], IF sort_by \in SortFields THEN sort_by ELSE s_name) ]
        order == sorted_positions(keys, is_reverse(sort_order))
    IN  IF \E i \in 1..Len(list) : keys[i].t = "AttributeError"
        THEN Sorted("AttributeError", << >>, << >>)
        ELSE IF Len(list) >= 2 /\ \E i \in 1..Len(list) : keys[i].t = "null"
        THEN Sorted("TypeError", << >>, << >>)
        ELSE Sorted("none", [ i \in 1..Len(list) |-> list[order[i]] ], order)

sort_items(list, sort_by, sort_order) ==
    LET identity == [ i \in 1..Len(list) |-> i ]
    IN  IF sort_by \notin SortFields THEN Sorted("none", list, identity)
        ELSE
          LET keys  == [ i \in 1..Len(list) |-> sort_key(list[i], sort_by) ]
              order == sorted_positions(keys, is_reverse(sort_order))
          IN  IF \E i \in 1..Len(list) : keys[i].t = "AttributeError"
              THEN Sorted("AttributeError", << >>, << >>)
              ELSE IF Len(list) >= 2 /\ \E i \in 1..Len(list) : keys[i].t = "null"
              THEN Sorted("TypeError", << >>, << >>)
              ELSE Sorted("none", [ i \in 1..Len(list) |-> list[order[i]] ], order)

----------------------------------------------------------------------------
(* The list objects behind apply_filters and sort_items *)

\* The outcome of a call on the list object `ref` of the memory h: the exception
\* raised, the memory after the call and the list object returned.
Called(raised, h, ref) == [ raised |-> raised, heap |-> h, ref |-> ref ]

\* items = apply_filters(items, ...), r being what apply_filters computes from
\* h[ref]: `result = items` names the argument itself and every comprehension
\* builds a new list; no statement writes into a list or into a record.
filter_call(h, ref, r) ==
    IF r.raised # "none" THEN Called(r.raised, h, ref)
    ELSE IF r.rebound THEN Called("none", Append(h, r.items), Len(h) + 1)
    ELSE Called("none", h, ref)

\* sort_items written with list.sort(): the argument itself is sorted and returned
sort_call_in_place(h, ref, by, r) ==
    IF r.raised # "none" THEN Called(r.raised, h, ref)
    ELSE Called("none", [ h EXCEPT ![ref] = r.items ], ref)

\* items = sort_items(items, ...), r being what sort_items computes from h[ref]:
\* sorted() builds a new list for a recognized field, and `return items` hands
\* back the argument for any other.
sort_call(h, ref, by, r) ==
    IF r.raised # "none" THEN Called(r.raised, h, ref)
    ELSE IF by \in SortFields THEN Called("none", Append(h, r.items), Len(h) + 1)
    ELSE Called("none", h, ref)

----------------------------------------------------------------------------
(* The region table, the item type registry and search_datahub *)

RegionKeys ==
    { << "w", "e", "s", "t", "-", "e", "u", "r", "o", "p", "e" >>,
      << "n", "o", "r", "t", "h", "-", "e", "u", "r", "o", "p", "e" >>,
      << "u", "s", "-", "e", "a", "s", "t" >>,
      << "u", "s", "-", "e", "a", "s", "t", "2" >>,
      << "u", "s", "-", "w", "e", "s", "t" >>,
      << "u", "s", "-", "n", "o", "r", "t", "h", "-", "c", "e", "n", "t", "r", "a", "l" >>,
      << "u", "s", "-", "s", "o", "u", "t", "h", "-", "c", "e", "n", "t", "r", "a", "l" >>,
      << "s", "o", "u", "t", "h", "-", "e", "a", "s", "t", "-", "a", "s", "i", "a" >>,
      << "a", "u", "s", "t", "r", "a", "l", "i", "a", "-", "e", "a", "s", "t" >>,
      << "b", "r", "a", "z", "i", "l", "-", "s", "o", "u", "t", "h" >>,
      << "c", "a", "n", "a", "d", "a", "-", "c", "e", "n", "t", "r", "a", "l" >>,
      << "i", "n", "d", "i", "a", "-", "w", "e", "s", "t" >>,
      << "j", "a", "p", "a", "n", "-", "e", "a", "s", "t" >>,
      << "u", "k", "-", "s", "o", "u", "t", "h" >> }

\* Every host of the table is its region key between these two texts
HostOf(region) == << "w", "a", "b", "i", "-" >> \o region \o << "-", "e", "-", "p", "r", "i", "m", "a", "r", "y", "-", "r", "e", "d", "i", "r", "e", "c", "t", ".", "a", "n", "a", "l", "y", "s", "i", "s", ".", "w", "i", "n", "d", "o", "w", "s", ".", "n", "e", "t" >>

REGIONS == [ region \in RegionKeys |-> HostOf(region) ]

DEFAULT_REGION == << "w", "e", "s", "t", "-", "e", "u", "r", "o", "p", "e" >>

\* The public labels of ITEM_TYPES, each with its "trident" backend label
ItemTypeRows ==
    { << << "P", "o", "w", "e", "r", "B", "I", "R", "e", "p", "o", "r", "t" >>, << "r", "e", "p", "o", "r", "t" >> >>,
      << << "R", "e", "p", "o", "r", "t" >>, << "r", "e", "p", "o", "r", "t" >> >>,
      << << "P", "a", "g", "i", "n", "a", "t", "e", "d", "R", "e", "p", "o", "r", "t" >>, << "r", "d", "l", "r", "e", "p", "o", "r", "t" >> >>,
      << << "D", "a", "s", "h", "b", "o", "a", "r", "d" >>, << "d", "a", "s", "h", "b", "o", "a", "r", "d" >> >>,
      << << "O", "r", "g", "A", "p", "p" >>, << "O", "r", "g", "A", "p", "p" >> >>,
      << << "M", "o", "d", "e", "l" >>, << "d", "a", "t", "a", "s", "e", "t" >> >>,
      << << "S", "e", "m", "a", "n", "t", "i", "c", "M", "o", "d", "e", "l" >>, << "s", "e", "m", "a", "n", "t", "i", "c", "M", "o", "d", "e", "l" >> >>,
      << << "M", "e", "t", "r", "i", "c", "S", "e", "t" >>, << "M", "e", "t", "r", "i", "c", "S", "e", "t" >> >>,
      << << "L", "a", "k", "e", "h", "o", "u", "s", "e" >>, << "L", "a", "k", "e", "h", "o", "u", "s", "e" >> >>,
      << << "W", "a", "r", "e", "h", "o", "u", "s", "e" >>, << "W", "a", "r", "e", "h", "o", "u", "s", "e" >> >>,
      << << "D", "a", "t", "a", "m", "a", "r", "t" >>, << "d", "a", "t", "a", "m", "a", "r", "t" >> >>,
      << << "S", "q", "l" >>, << "d", "a", "t", "a", "m", "a", "r", "t" >> >>,
      << << "K", "u", "s", "t", "o", "D", "a", "t", "a", "b", "a", "s", "e" >>, << "K", "u", "s", "t", "o", "D", "a", "t", "a", "b", "a", "s", "e" >> >>,
      << << "K", "u", "s", "t", "o", "E", "v", "e", "n", "t", "H", "o", "u", "s", "e" >>, << "K", "u", "s", "t", "o", "E", "v", "e", "n", "t", "H", "o", "u", "s", "e" >> >>,
      << << "S", "Q", "L", "D", "b", "N", "a", "t", "i", "v", "e" >>, << "S", "Q", "L", "D", "b", "N", "a", "t", "i", "v", "e" >> >>,
      << << "C", "o", "s", "m", "o", "s", "D", "B" >>, << "C", "o", "s", "m", "o", "s", "D", "B" >> >>,
      << << "D", "a", "t", "a", "b", "r", "i", "c", "k", "s", "C", "a", "t", "a", "l", "o", "g" >>, << "D", "a", "t", "a", "b", "r", "i", "c", "k", "s", "C", "a", "t", "a", "l", "o", "g" >> >>,
      << << "S", "q", "l", "A", "n", "a", "l", "y", "t", "i", "c", "s", "E", "n", "d", "p", "o", "i", "n", "t" >>, << "S", "q", "l", "A", "n", "a", "l", "y", "t", "i", "c", "s", "E", "n", "d", "p", "o", "i", "n", "t" >> >>,
      << << "W", "a", "r", "e", "h", "o", "u", "s", "e", "S", "n", "a", "p", "s", "h", "o", "t" >>, << "W", "a", "r", "e", "h", "o", "u", "s", "e", "S", "n", "a", "p", "s", "h", "o", "t" >> >>,
      << << "L", "a", "k", "e", "w", "a", "r", "e", "h", "o", "u", "s", "e" >>, << "l", "a", "k", "e", "-", "w", "a", "r", "e", "h", "o", "u", "s", "e" >> >>,
      << << "M", "o", "u", "n", "t", "e", "d", "W", "a", "r", "e", "h", "o", "u", "s", "e" >>, << "m", "o", "u", "n", "t", "e", "d", "-", "w", "a", "r", "e", "h", "o", "u", "s", "e" >> >>,
      << << "M", "o", "u", "n", "t", "e", "d", "R", "e", "l", "a", "t", "i", "o", "n", "a", "l", "D", "a", "t", "a", "b", "a", "s", "e" >>, << "M", "o", "u", "n", "t", "e", "d", "R", "e", "l", "a", "t", "i", "o", "n", "a", "l", "D", "a", "t", "a", "b", "a", "s", "e" >> >>,
      << << "D", "a", "t", "a", "F", "l", "o", "w" >>, << "d", "a", "t", "a", "f", "l", "o", "w" >> >>,
      << << "D", "a", "t", "a", "f", "l", "o", "w" >>, << "d", "a", "t", "a", "f", "l", "o", "w" >> >>,
      << << "D", "a", "t", "a", "f", "l", "o", "w", "F", "a", "b", "r", "i", "c" >>, << "D", "a", "t", "a", "f", "l", "o", "w", "F", "a", "b", "r", "i", "c" >> >>,
      << << "P", "i", "p", "e", "l", "i", "n", "e" >>, << "P", "i", "p", "e", "l", "i", "n", "e" >> >>,
      << << "D", "a", "t", "a", "P", "i", "p", "e", "l", "i", "n", "e" >>, << "D", "a", "t", "a", "P", "i", "p", "e", "l", "i", "n", "e" >> >>,
      << << "C", "o", "p", "y", "J", "o", "b" >>, << "C", "o", "p", "y", "J", "o", "b" >> >>,
      << << "E", "v", "e", "n", "t", "S", "t", "r", "e", "a", "m" >>, << "E", "v", "e", "n", "t", "S", "t", "r", "e", "a", "m" >> >>,
      << << "M", "o", "u", "n", "t", "e", "d", "D", "a", "t", "a", "F", "a", "c", "t", "o", "r", "y" >>, << "M", "o", "u", "n", "t", "e", "d", "D", "a", "t", "a", "F", "a", "c", "t", "o", "r", "y" >> >>,
      << << "A", "p", "a", "c", "h", "e", "A", "i", "r", "f", "l", "o", "w", "P", "r", "o", "j", "e", "c", "t" >>, << "A", "p", "a", "c", "h", "e", "A", "i", "r", "f", "l", "o", "w", "P", "r", "o", "j", "e", "c", "t" >> >>,
      << << "S", "y", "n", "a", "p", "s", "e", "N", "o", "t", "e", "b", "o", "o", "k" >>, << "S", "y", "n", "a", "p", "s", "e", "N", "o", "t", "e", "b", "o", "o", "k" >> >>,
      << << "N", "o", "t", "e", "b", "o", "o", "k" >>, << "S", "y", "n", "a", "p", "s", "e", "N", "o", "t", "e", "b", "o", "o", "k" >> >>,
      << << "S", "p", "a", "r", "k", "J", "o", "b", "D", "e", "f", "i", "n", "i", "t", "i", "o", "n" >>, << "S", "p", "a", "r", "k", "J", "o", "b", "D", "e", "f", "i", "n", "i", "t", "i", "o", "n" >> >>,
      << << "M", "L", "M", "o", "d", "e", "l" >>, << "M", "L", "M", "o", "d", "e", "l" >> >>,
      << << "M", "L", "E", "x", "p", "e", "r", "i", "m", "e", "n", "t" >>, << "M", "L", "E", "x", "p", "e", "r", "i", "m", "e", "n", "t" >> >>,
      << << "O", "p", "e", "r", "a", "t", "i", "o", "n", "a", "l", "A", "g", "e", "n", "t", "s" >>, << "O", "p", "e", "r", "a", "t", "i", "o", "n", "a", "l", "A", "g", "e", "n", "t", "s" >> >>,
      << << "L", "L", "M", "P", "l", "u", "g", "i", "n" >>, << "L", "L", "M", "P", "l", "u", "g", "i", "n" >> >>,
      << << "K", "u", "s", "t", "o", "D", "a", "s", "h", "b", "o", "a", "r", "d" >>, << "K", "u", "s", "t", "o", "D", "a", "s", "h", "b", "o", "a", "r", "d" >> >>,
      << << "K", "u", "s", "t", "o", "Q", "u", "e", "r", "y", "W", "o", "r", "k", "b", "e", "n", "c", "h" >>, << "K", "u", "s", "t", "o", "Q", "u", "e", "r", "y", "W", "o", "r", "k", "b", "e", "n", "c", "h" >> >>,
      << << "R", "e", "f", "l", "e", "x" >>, << "R", "e", "f", "l", "e", "x" >> >>,
      << << "R", "e", "f", "l", "e", "x", "P", "r", "o", "j", "e", "c", "t" >>, << "R", "e", "f", "l", "e", "x", "P", "r", "o", "j", "e", "c", "t" >> >>,
      << << "G", "r", "a", "p", "h", "Q", "L" >>, << "G", "r", "a", "p", "h", "Q", "L" >> >>,
      << << "G", "r", "a", "p", "h", "M", "o", "d", "e", "l" >>, << "G", "r", "a", "p", "h", "M", "o", "d", "e", "l" >> >>,
      << << "F", "u", "n", "c", "t", "i", "o", "n", "S", "e", "t" >>, << "F", "u", "n", "c", "t", "i", "o", "n", "S", "e", "t" >> >>,
      << << "D", "a", "t", "a", "E", "x", "p", "l", "o", "r", "a", "t", "i", "o", "n" >>, << "D", "a", "t", "a", "E", "x", "p", "l", "o", "r", "a", "t", "i", "o", "n" >> >>,
      << << "E", "x", "p", "l", "o", "r", "a", "t", "i", "o", "n" >>, << "E", "x", "p", "l", "o", "r", "a", "t", "i", "o", "n" >> >>,
      << << "O", "n", "t", "o", "l", "o", "g", "y" >>, << "O", "n", "t", "o", "l", "o", "g", "y" >> >>,
      << << "D", "i", "g", "i", "t", "a", "l", "T", "w", "i", "n", "B", "u", "i", "l", "d", "e", "r" >>, << "D", "i", "g", "i", "t", "a", "l", "T", "w", "i", "n", "B", "u", "i", "l", "d", "e", "r" >> >>,
      << << "H", "e", "a", "l", "t", "h", "D", "a", "t", "a", "M", "a", "n", "a", "g", "e", "r" >>, << "H", "e", "a", "l", "t", "h", "D", "a", "t", "a", "M", "a", "n", "a", "g", "e", "r" >> >>,
      << << "H", "L", "S", "C", "o", "h", "o", "r", "t" >>, << "H", "L", "S", "C", "o", "h", "o", "r", "t" >> >>,
      << << "R", "e", "t", "a", "i", "l", "D", "a", "t", "a", "M", "a", "n", "a", "g", "e", "r" >>, << "R", "e", "t", "a", "i", "l", "D", "a", "t", "a", "M", "a", "n", "a", "g", "e", "r" >> >>,
      << << "S", "u", "s", "t", "a", "i", "n", "a", "b", "i", "l", "i", "t", "y", "D", "a", "t", "a", "M", "a", "n", "a", "g", "e", "r" >>, << "S", "u", "s", "t", "a", "i", "n", "a", "b", "i", "l", "i", "t", "y", "D", "a", "t", "a", "M", "a", "n", "a", "g", "e", "r" >> >>,
      << << "E", "n", "v", "i", "r", "o", "n", "m", "e", "n", "t" >>, << "E", "n", "v", "i", "r", "o", "n", "m", "e", "n", "t" >> >>,
      << << "V", "a", "r", "i", "a", "b", "l", "e", "s" >>, << "V", "a", "r", "i", "a", "b", "l", "e", "s" >> >> }

ITEM_TYPES == [ label \in { row[1] : row \in ItemTypeRows } |-> (CHOOSE row \in ItemTypeRows : row[1] = label)[2] ]

\* lines 256-261 with every label lower-cased, registered or not
trident_type_lowered(item_type) == Lower(item_type)

\* The loop of lines 256-261 for one label
trident_type(item_type) ==
    IF item_type \in DOMAIN ITEM_TYPES THEN ITEM_TYPES[item_type] ELSE Lower(item_type)

MaxPageSize == 1000
HostFamily == 4
ErrorTextLimit == 200

Min(a, b) == IF a <= b THEN a ELSE b

\* str(n) for a natural number
RECURSIVE NatToStr(_)
NatToStr(n) ==
    IF n < 10 THEN << SubSeq(<< "0", "1", "2", "3", "4", "5", "6", "7", "8", "9" >>, n + 1, n + 1)[1] >>
    ELSE NatToStr(n \div 10) \o NatToStr(n % 10)

\* the request of lines 271-280 with the page size as it was asked for
Request_unclamped(host, token, item_types, workspace_id, page_size, page_number) ==
    [ host |-> host, token |-> token,
      filters |-> IF Truthy(workspace_id) THEN << workspace_id.s >> ELSE << >>,
      hostFamily |-> HostFamily, pageNumber |-> page_number,
      pageSize |-> page_size,
      supportedTypes |-> item_types,
      tridentSupportedTypes |-> [ i \in 1..Len(item_types) |-> trident_type(item_types[i]) ] ]

\* The request that requests.post sends: its host, its Authorization token and
\* the payload of lines 271-280; workspace_id is None (Null) or a string
Request(host, token, item_types, workspace_id, page_size, page_number) ==
    [ host |-> host, token |-> token,
      filters |-> IF Truthy(workspace_id) THEN << workspace_id.s >> ELSE << >>,
      hostFamily |-> HostFamily, pageNumber |-> page_number,
      pageSize |-> Min(page_size, MaxPageSize),
      supportedTypes |-> item_types,
      tridentSupportedTypes |-> [ i \in 1..Len(item_types) |-> trident_type(item_types[i]) ] ]

\* What requests.post and response.json() do, as the network decides it: a
\* response with a status, a text and a body that is a JSON list, another JSON
\* value or no JSON at all; the Timeout exception; or another exception with its text.
HttpResponse(status, text, body, list) ==
    [ kind |-> "response", status |-> status, text |-> text, body |-> body, list |-> list, message |-> << >> ]
HttpTimeout ==
    [ kind |-> "timeout", status |-> 0, text |-> << >>, body |-> "none", list |-> << >>, message |-> << >> ]
HttpException(message) ==
    [ kind |-> "exception", status |-> 0, text |-> << >>, body |-> "none", list |-> << >>, message |-> message ]

\* str(e) of the JSONDecodeError that response.json() raises
s_expecting_value == << "E", "x", "p", "e", "c", "t", "i", "n", "g", " ", "v", "a", "l", "u", "e", ":", " ", "l", "i", "n", "e", " ", "1", " ", "c", "o", "l", "u", "m", "n", " ", "1", " ", "(", "c", "h", "a", "r", " ", "0", ")" >>

\* The dict search_datahub returns, `keys` being the keys it has; or the exception raised
SearchResult(keys, success, list, region, host, error) ==
    [ raised |-> "none", keys |-> keys, success |-> success, items |-> list, count |-> Len(list),
      region |-> region, host |-> host, error |-> error ]

SearchFailure(region_keys, region, error) ==
    SearchResult({ "success", "error" } \cup region_keys, FALSE, << >>, region, << >>, error)

SearchRaised(exception) ==
    [ SearchFailure({ }, << >>, << >>) EXCEPT !.raised = exception, !.keys = { } ]

\* The outcome of a search_datahub call: what it returns and the requests it sent
Searched(result, posts) == [ result |-> result, posts |-> posts ]

\* Lines 292-310 of search_datahub without the last except clause
respond_uncaught(http, region, host) ==
    CASE http.kind = "timeout" ->
            SearchFailure({ "region" }, region, << "R", "e", "q", "u", "e", "s", "t", " ", "t", "i", "m", "e", "d", " ", "o", "u", "t", " ", "(", "6", "0", "s", ")" >>)
      [] http.kind = "exception" -> SearchRaised("Exception")
      [] http.kind = "response" /\ http.status # 200 ->
            SearchFailure({ "region" }, region,
                << "H", "T", "T", "P", " " >> \o NatToStr(http.status) \o << ":", " " >> \o Prefix(http.text, ErrorTextLimit))
      [] http.kind = "response" /\ http.status = 200 /\ http.body = "undecodable" ->
            SearchRaised("JSONDecodeError")
      [] OTHER ->
            SearchResult({ "success", "items", "count", "region", "host" }, TRUE,
                         IF http.body = "list" THEN http.list ELSE << >>, region, host, << >>)

\* Lines 292-310: what search_datahub returns once requests.post has ended as http
respond(http, region, host) ==
    CASE http.kind = "timeout" ->
            SearchFailure({ "region" }, region, << "R", "e", "q", "u", "e", "s", "t", " ", "t", "i", "m", "e", "d", " ", "o", "u", "t", " ", "(", "6", "0", "s", ")" >>)
      [] http.kind = "exception" -> SearchFailure({ "region" }, region, http.message)
      [] http.kind = "response" /\ http.status # 200 ->
            SearchFailure({ "region" }, region,
                << "H", "T", "T", "P", " " >> \o NatToStr(http.status) \o << ":", " " >> \o Prefix(http.text, ErrorTextLimit))
      [] http.kind = "response" /\ http.status = 200 /\ http.body = "undecodable" ->
            SearchFailure({ "region" }, region, s_expecting_value)
      [] OTHER ->
            SearchResult({ "success", "items", "count", "region", "host" }, TRUE,
                         IF http.body = "list" THEN http.list ELSE << >>, region, host, << >>)

\* search_datahub with the default region's host for a key that is not in the table
search_datahub_default_host(token, item_types, region, workspace_id, page_size, page_number, http) ==
    LET host == IF region \in DOMAIN REGIONS THEN REGIONS[region] ELSE REGIONS[DEFAULT_REGION]
    IN  Searched(respond(http, region, host),
                 << Request(host, token, item_types, workspace_id, page_size, page_number) >>)

search_datahub(token, item_types, region, workspace_id, page_size, page_number, http) ==
    IF region \notin DOMAIN REGIONS
    THEN Searched(SearchFailure({ }, << >>,
                      << "U", "n", "k", "n", "o", "w", "n", " ", "r", "e", "g", "i", "o", "n", ":", " " >> \o region \o << ".", " ", "U", "s", "e", " ", "-", "-", "l", "i", "s", "t", "-", "r", "e", "g", "i", "o", "n", "s", " ", "t", "o", " ", "s", "e", "e", " ", "o", "p", "t", "i", "o", "n", "s", "." >>), << >>)
    ELSE LET host == REGIONS[region]
         IN  Searched(respond(http, region, host),
                      << Request(host, token, item_types, workspace_id, page_size, page_number) >>)

----------------------------------------------------------------------------
(* get_fabric_token *)

\* What subprocess.run of the credential command does: it ends with a return
\* code and a stdout that is a JSON object (accessToken being a string, null, or
\* absent: Missing), another JSON value ("list") or no JSON ("invalid"); it
\* exceeds its 30 seconds; the command is not found; or another error is raised.
AzExit(returncode, json, accessToken) ==
    [ kind |-> "exit", returncode |-> returncode, json |-> json, accessToken |-> accessToken, message |-> << >> ]
AzTimeout ==
    [ kind |-> "timeout", returncode |-> 0, json |-> "none", accessToken |-> Missing, message |-> << >> ]
AzNotFound ==
    [ kind |-> "not_found", returncode |-> 0, json |-> "none", accessToken |-> Missing, message |-> << >> ]
AzError(message) ==
    [ kind |-> "error", returncode |-> 0, json |-> "none", accessToken |-> Missing, message |-> message ]

s_no_attribute_get == << "'", "l", "i", "s", "t", "'", " ", "o", "b", "j", "e", "c", "t", " ", "h", "a", "s", " ", "n", "o", " ", "a", "t", "t", "r", "i", "b", "u", "t", "e", " ", "'", "g", "e", "t", "'" >>
s_error_getting_token == << "E", "r", "r", "o", "r", " ", "g", "e", "t", "t", "i", "n", "g", " ", "t", "o", "k", "e", "n", ":", " " >>

\* What get_fabric_token returns (None is Null) and the lines it prints to stderr
TokenResult(tok, printed) == [ token |-> tok, printed |-> printed ]

get_fabric_token(az) ==
    CASE az.kind = "timeout" -> TokenResult(Null, << << "E", "r", "r", "o", "r", ":", " ", "C", "o", "m", "m", "a", "n", "d", " ", "t", "i", "m", "e", "d", " ", "o", "u", "t" >> >>)
      [] az.kind = "not_found" ->
            TokenResult(Null, << << "E", "r", "r", "o", "r", ":", " ", "A", "z", "u", "r", "e", " ", "C", "L", "I", " ", "n", "o", "t", " ", "i", "n", "s", "t", "a", "l", "l", "e", "d", ".", " ", "I", "n", "s", "t", "a", "l", "l", " ", "w", "i", "t", "h", " ", "'", "b", "r", "e", "w", " ", "i", "n", "s", "t", "a", "l", "l", " ", "a", "z", "u", "r", "e", "-", "c", "l", "i", "'" >> >>)
      [] az.kind = "error" -> TokenResult(Null, << s_error_getting_token \o az.message >>)
      [] az.kind = "exit" /\ az.returncode # 0 ->
            TokenResult(Null, << << "E", "r", "r", "o", "r", ":", " ", "A", "z", "u", "r", "e", " ", "C", "L", "I", " ", "n", "o", "t", " ", "a", "u", "t", "h", "e", "n", "t", "i", "c", "a", "t", "e", "d", ".", " ", "R", "u", "n", " ", "'", "a", "z", " ", "l", "o", "g", "i", "n", "'", " ", "f", "i", "r", "s", "t", "." >> >>)
      [] az.kind = "exit" /\ az.returncode = 0 /\ az.json = "invalid" ->
            TokenResult(Null, << s_error_getting_token \o s_expecting_value >>)
      [] az.kind = "exit" /\ az.returncode = 0 /\ az.json = "list" ->
            TokenResult(Null, << s_error_getting_token \o s_no_attribute_get >>)
      [] OTHER -> TokenResult(Get(az, "accessToken"), << >>)

----------------------------------------------------------------------------
(* format_output *)

\* The first exception of a chain of evaluations, "none" when there is none
RECURSIVE FirstRaised(_)
FirstRaised(outs) ==
    IF outs = << >> THEN "none"
    ELSE IF Head(outs) # "none" THEN Head(outs)
    ELSE FirstRaised(Tail(outs))

\* What the evaluation of one expression gives: the exception raised ("none"
\* when there is none) and its value
Field(raised, value) == [ raised |-> raised, value |-> value ]

\* str(n) for an integer
IntToStr(n) == IF n < 0 THEN << "-" >> \o NatToStr(0 - n) ELSE NatToStr(n)

\* A JSON value inside an f-string: None is written 'None'
PyStr(v) ==
    CASE v.t = "str" -> v.s
      [] v.t = "int" -> IntToStr(v.n)
      [] v.t = "bool" -> IF v.n = 1 THEN << "T", "r", "u", "e" >> ELSE << "F", "a", "l", "s", "e" >>
      [] OTHER -> << "N", "o", "n", "e" >>

\* v[:n]: a slice of a string; None and numbers are not subscriptable
Subscript(v, n) ==
    IF v.t = "str" THEN Field("none", StrV(Prefix(v.s, n))) ELSE Field("TypeError", Null)

\* item.get(key, {}).get(...): None has no get
DictGet(d) == IF d.t = "obj" THEN "none" ELSE "AttributeError"

\* dt = _parse_odata_date(value); return dt.isoformat() if dt else None. The
\* value kept is the instant that isoformat() writes, or None.
IsoFormat(dt) ==
    IF dt.t \in { "dt", "None" } THEN Field("none", dt) ELSE Field(dt.t, NoDT("None"))

IsoOrNone(v) == IsoFormat(_parse_odata_date(v))

\* _get_refresh_time(item), lines 661-679
_get_refresh_time(item) ==
    IF Truthy(Get(item, "lastRefreshTime")) THEN IsoOrNone(item.lastRefreshTime)
    ELSE LET artifact == GetOr(item, "artifact", EmptyArtifact)
         IN  IF artifact.t # "obj" THEN Field("AttributeError", NoDT("None"))
             ELSE LET refresh_time == IF Truthy(Get(artifact, "LastRefreshTime"))
                                      THEN Get(artifact, "LastRefreshTime")
                                      ELSE Get(artifact, "lastRefreshTime")
                  IN  IF Truthy(refresh_time) THEN IsoOrNone(refresh_time)
                      ELSE IF Truthy(Get(artifact, "lastUpdatedDate"))
                           THEN IsoOrNone(artifact.lastUpdatedDate)
                           ELSE Field("none", NoDT("None"))

\* _get_modified_time(item), lines 682-688
_get_modified_time(item) ==
    IF Truthy(Get(item, "modifiedDate")) THEN IsoOrNone(item.modifiedDate)
    ELSE Field("none", NoDT("None"))

s_DirectLake == << "D", "i", "r", "e", "c", "t", "L", "a", "k", "e" >>
s_Import == << "I", "m", "p", "o", "r", "t" >>
s_DirectQuery == << "D", "i", "r", "e", "c", "t", "Q", "u", "e", "r", "y" >>
s_Unknown == << "U", "n", "k", "n", "o", "w", "n" >>

\* lines 648-658 with the numeric code read before the direct-lake flag
_get_storage_mode_code_first(item) ==
    LET artifact == GetOr(item, "artifact", EmptyArtifact)
    IN  IF artifact.t # "obj" THEN Field("AttributeError", Null)
        ELSE LET sm == Get(artifact, "storageMode")
             IN  IF PyEqInt(sm, 1) THEN Field("none", StrV(s_Import))
                 ELSE IF PyEqInt(sm, 2) THEN Field("none", StrV(s_DirectQuery))
                 ELSE IF Truthy(Get(artifact, "directLakeMode")) THEN Field("none", StrV(s_DirectLake))
                 ELSE Field("none", StrV(s_Unknown))

\* _get_storage_mode(item), lines 648-658
_get_storage_mode(item) ==
    LET artifact == GetOr(item, "artifact", EmptyArtifact)
    IN  IF artifact.t # "obj" THEN Field("AttributeError", Null)
        ELSE IF Truthy(Get(artifact, "directLakeMode")) THEN Field("none", StrV(s_DirectLake))
        ELSE LET sm == Get(artifact, "storageMode")
             IN  IF PyEqInt(sm, 1) THEN Field("none", StrV(s_Import))
                 ELSE IF PyEqInt(sm, 2) THEN Field("none", StrV(s_DirectQuery))
                 ELSE Field("none", StrV(s_Unknown))

\* item.get('lastVisitedTimeUTC', ...)[:n] if item.get('lastVisitedTimeUTC') else default
last_visit(item, n, default) ==
    IF Truthy(Get(item, "lastVisitedTimeUTC")) THEN Subscript(item.lastVisitedTimeUTC, n)
    ELSE Field("none", StrV(default))

\* item.get("displayName", item.get("name", default))
display_name(item, default) == GetOr(item, "displayName", GetOr(item, "name", default))

\* f"{owner.get('givenName', '')} {owner.get('familyName', '')}"
owner_name(owner) ==
    PyStr(GetOr(owner, "givenName", EmptyStr)) \o << " " >> \o PyStr(GetOr(owner, "familyName", EmptyStr))

s_table == << "t", "a", "b", "l", "e" >>
s_json == << "j", "s", "o", "n" >>
s_brief == << "b", "r", "i", "e", "f" >>
s_detailed == << "d", "e", "t", "a", "i", "l", "e", "d" >>
OutputFormats == { s_table, s_json, s_brief, s_detailed }

s_NA == << "N", "/", "A" >>

\* What the loop of format_output writes for one record: the values it places in
\* the text, or the exception raised
Row(raised, cells) == [ raised |-> raised, cells |-> cells ]

\* Lines 590-603: one record of the structured output (the workspace id and the
\* discoverable flag, which no stage reads, are left out)
json_row(item, refreshed, modified, owner, storage) ==
    LET raised == FirstRaised(<< refreshed.raised, modified.raised, DictGet(owner), storage.raised >>)
    IN  IF raised # "none" THEN Row(raised, << >>)
        ELSE Row("none",
                 [ name |-> display_name(item, Null),
                   workspace |-> Get(item, "workspaceName"),
                   id |-> Get(item, "objectId"),
                   lastVisited |-> Get(item, "lastVisitedTimeUTC"),
                   lastRefreshed |-> refreshed.value,
                   lastModified |-> modified.value,
                   owner |-> Get(owner, "emailAddress"),
                   ownerName |-> StrV(Strip(owner_name(owner))),
                   storageMode |-> storage.value,
                   capacitySku |-> Get(GetOr(item, "artifact", EmptyArtifact), "sharedFromEnterpriseCapacitySku") ])

json_item(item) ==
    json_row(item, _get_refresh_time(item), _get_modified_time(item),
             GetOr(item, "ownerUser", EmptyOwner), _get_storage_mode(item))

\* Lines 611-614: workspace/name
brief_item(item) ==
    Row("none", [ path |-> PyStr(GetOr(item, "workspaceName", EmptyStr)) \o << "/" >>
                           \o PyStr(display_name(item, StrV(s_Unknown))) ])

\* Lines 619-629: the lines of one record
detailed_item(item) ==
    LET visit   == last_visit(item, 19, s_NA)
        owner   == GetOr(item, "ownerUser", EmptyOwner)
        storage == _get_storage_mode(item)
        raised  == FirstRaised(<< visit.raised, DictGet(owner), storage.raised >>)
    IN  IF raised # "none" THEN Row(raised, << >>)
        ELSE Row("none",
                 [ name |-> PyStr(display_name(item, StrV(s_Unknown))),
                   workspace |-> PyStr(GetOr(item, "workspaceName", StrV(s_NA))),
                   id |-> PyStr(GetOr(item, "objectId", StrV(s_NA))),
                   lastVisit |-> visit.value.s,
                   owner |-> owner_name(owner) \o << " ", "<" >> \o PyStr(GetOr(owner, "emailAddress", StrV(s_NA))) \o << ">" >>,
                   storage |-> storage.value.s,
                   capacity |-> PyStr(GetOr(GetOr(item, "artifact", EmptyArtifact), "sharedFromEnterpriseCapacitySku", StrV(s_NA))) ])

\* Lines 637-643: the cells of one row, before they are padded to their widths
table_item(item) ==
    LET name      == Subscript(display_name(item, StrV(s_Unknown)), 34)
        workspace == Subscript(GetOr(item, "workspaceName", EmptyStr), 21)
        visit     == last_visit(item, 10, << >>)
        owner     == GetOr(item, "ownerUser", EmptyOwner)
        raised    == FirstRaised(<< name.raised, workspace.raised, visit.raised, DictGet(owner) >>)
    IN  IF raised # "none" THEN Row(raised, << >>)
        ELSE Row("none",
                 [ name |-> name.value.s, workspace |-> workspace.value.s,
                   lastVisited |-> visit.value.s,
                   owner |-> Prefix(owner_name(owner), 19) ])

\* The body of the loop of format_output for one record
format_item(item, output_format) ==
    CASE output_format = s_json -> json_item(item)
      [] output_format = s_brief -> brief_item(item)
      [] output_format = s_detailed -> detailed_item(item)
      [] OTHER -> table_item(item)

\* What format_output returns: the exception raised ("none" when there is none),
\* the shape of the text and, record by record, what the text holds. The shape
\* "No items found." is that text itself; "json" is a JSON list of the rows,
\* "brief" one line per row, "detailed" one block per row, "table" the header,
\* the rule and one line per row.
Formatted(raised, shape, rows) == [ raised |-> raised, shape |-> shape, rows |-> rows ]

\* The text of the given shape made of the rendered records, or the first
\* exception that rendering one of them raised
joined(shape, rendered) ==
    LET raised == FirstRaised([ i \in 1..Len(rendered) |-> rendered[i].raised ])
    IN  IF raised # "none" THEN Formatted(raised, shape, << >>)
        ELSE Formatted("none", shape, [ i \in 1..Len(rendered) |-> rendered[i].cells ])

\* format_output with the test for an empty list before the structured mode
format_output_empty_first(list, output_format) ==
    LET shape == CASE list = << >> -> "No items found."
                   [] output_format = s_json -> "json"
                   [] output_format = s_brief -> "brief"
                   [] output_format = s_detailed -> "detailed"
                   [] OTHER -> "table"
    IN  joined(shape, [ i \in 1..Len(list) |-> format_item(list[i], output_format) ])

\* format_output(items, output_format), lines 586-645
format_output(list, output_format) ==
    LET shape == CASE output_format = s_json -> "json"
                   [] list = << >> -> "No items found."
                   [] output_format = s_brief -> "brief"
                   [] output_format = s_detailed -> "detailed"
                   [] OTHER -> "table"
    IN  joined(shape, [ i \in 1..Len(list) |-> format_item(list[i], output_format) ])

----------------------------------------------------------------------------
(* main, step by step *)

\* An external call, a line on stderr or stdout, or a stage of the pipeline, as
\* the process makes it
Event(kind, detail) == [ kind |-> kind, detail |-> detail ]

\* The outcome of one step of main: where it goes on, the exit status (None
\* while main goes on), what it adds to the log and the value it binds
Step(next, code, evs, value) == [ pc |-> next, status |-> code, events |-> evs, value |-> value ]

\* lines 818-851 with the required type checked before the introspection modes
main_start_type_first(a) ==
    IF ~ Truthy(a.item_type)
    THEN Step("done", IntV(2), << Event("error", << "-", "-", "t", "y", "p", "e", " ", "i", "s", " ", "r", "e", "q", "u", "i", "r", "e", "d", " ", "f", "o", "r", " ", "s", "e", "a", "r", "c", "h", " ", "(", "o", "r", " ", "u", "s", "e", " ", "-", "-", "l", "i", "s", "t", "-", "t", "y", "p", "e", "s", ")" >>) >>, Null)
    ELSE IF a.list_types THEN Step("done", IntV(0), << Event("stdout", << "t", "y", "p", "e", "s" >>) >>, Null)
    ELSE IF a.list_regions THEN Step("done", IntV(0), << Event("stdout", << "r", "e", "g", "i", "o", "n", "s" >>) >>, Null)
    ELSE IF a.item_type.s \notin DOMAIN ITEM_TYPES
    THEN Step("token", Null, << Event("warning", a.item_type.s) >>, Null)
    ELSE Step("token", Null, << >>, Null)

\* Lines 818-851: the introspection modes, the required type and its validation
main_start(a) ==
    IF a.list_types THEN Step("done", IntV(0), << Event("stdout", << "t", "y", "p", "e", "s" >>) >>, Null)
    ELSE IF a.list_regions THEN Step("done", IntV(0), << Event("stdout", << "r", "e", "g", "i", "o", "n", "s" >>) >>, Null)
    ELSE IF ~ Truthy(a.item_type)
    THEN Step("done", IntV(2), << Event("error", << "-", "-", "t", "y", "p", "e", " ", "i", "s", " ", "r", "e", "q", "u", "i", "r", "e", "d", " ", "f", "o", "r", " ", "s", "e", "a", "r", "c", "h", " ", "(", "o", "r", " ", "u", "s", "e", " ", "-", "-", "l", "i", "s", "t", "-", "t", "y", "p", "e", "s", ")" >>) >>, Null)
    ELSE IF a.item_type.s \notin DOMAIN ITEM_TYPES
    THEN Step("token", Null, << Event("warning", a.item_type.s) >>, Null)
    ELSE Step("token", Null, << >>, Null)

Reports(printed) == [ i \in 1..Len(printed) |-> Event("error", printed[i]) ]

\* lines 853-857 with `return 0` for a missing token
main_token_returns_0(az) ==
    LET r == get_fabric_token(az)
        evs == << Event("az", << "a", "c", "c", "o", "u", "n", "t", " ", "g", "e", "t", "-", "a", "c", "c", "e", "s", "s", "-", "t", "o", "k", "e", "n" >>) >> \o Reports(r.printed)
    IN  IF ~ Truthy(r.token) THEN Step("done", IntV(0), evs, r.token)
        ELSE Step("search", Null, evs, r.token)

\* Lines 853-857: token = get_fabric_token(); if not token: return 1
main_token(az) ==
    LET r == get_fabric_token(az)
        evs == << Event("az", << "a", "c", "c", "o", "u", "n", "t", " ", "g", "e", "t", "-", "a", "c", "c", "e", "s", "s", "-", "t", "o", "k", "e", "n" >>) >> \o Reports(r.printed)
    IN  IF ~ Truthy(r.token) THEN Step("done", IntV(1), evs, r.token)
        ELSE Step("search", Null, evs, r.token)

Posted(posts) == [ i \in 1..Len(posts) |-> Event("post", posts[i]) ]

\* lines 859-874 with a second attempt after a failed search
main_search_retry(a, tok, http) ==
    LET s == search_datahub(tok.s, << a.item_type.s >>, a.region, a.workspace_id, a.page_size, 1, http)
    IN  IF ~ s.result.success
        THEN Step("done", IntV(1), Posted(s.posts) \o Posted(s.posts)
                             \o << Event("error", << "E", "r", "r", "o", "r", ":", " " >> \o s.result.error) >>, s.result)
        ELSE Step("filter", Null, Posted(s.posts), s.result)

\* Lines 859-874: the one search_datahub call and the report of its failure
main_search(a, tok, http) ==
    LET s == search_datahub(tok.s, << a.item_type.s >>, a.region, a.workspace_id, a.page_size, 1, http)
    IN  IF ~ s.result.success
        THEN Step("done", IntV(1), Posted(s.posts) \o << Event("error", << "E", "r", "r", "o", "r", ":", " " >> \o s.result.error) >>, s.result)
        ELSE Step("filter", Null, Posted(s.posts), s.result)

\* An exception that nothing catches ends the process with a traceback and status 1
Uncaught(stage, exception) ==
    Step("done", IntV(1), << Event("stage", stage), Event("traceback", exception) >>, << >>)

\* Lines 876-890: items = apply_filters(items, ...), w being what the call did
main_filter(w) ==
    IF w.raised # "none" THEN Uncaught("filter", w.raised)
    ELSE Step("sort", Null,
              << Event("stage", "filter") >> \o [ i \in 1..Len(w.warnings) |-> Event("warning", w.warnings[i]) ],
              w.items)

\* Lines 892-894: if args.sort: items = sort_items(items, args.sort, args.sort_order),
\* r being what the call did
main_sort(a, list, r) ==
    IF ~ Truthy(a.sort) THEN Step("limit", Null, << >>, list)
    ELSE IF r.raised # "none" THEN Uncaught("sort", r.raised)
    ELSE Step("limit", Null, << Event("stage", "sort") >>, r.items)

\* seq[:n] for an integer n
Slice(seq, n) ==
    IF n >= 0 THEN SubSeq(seq, 1, Min(n, Len(seq)))
    ELSE SubSeq(seq, 1, IF Len(seq) + n > 0 THEN Len(seq) + n ELSE 0)

\* Lines 896-898: if args.limit: items = items[:args.limit]
main_limit(a, list) ==
    Step("output", Null, << >>, IF Truthy(a.limit) THEN Slice(list, a.limit.n) ELSE list)

\* Lines 900-904: print(format_output(items, args.output)); return 0, out being
\* what format_output did
main_output(list, out) ==
    IF out.raised # "none" THEN Uncaught("format", out.raised)
    ELSE Step("done", IntV(0), << Event("stage", "format"), Event("stdout", out) >>, list)

----------------------------------------------------------------------------
(* The pipeline's state *)

VARIABLES
    pc,          \* "start", then "filtered", "refiltered" or "sorted"
    items,       \* the list returned by the backend
    fspec,       \* the eleven keyword arguments of apply_filters
    filtered,    \* what apply_filters(items, fspec) returned or raised
    refiltered,  \* what apply_filters(filtered, fspec) returned or raised
    sort_by,     \* the arguments of sort_items
    sort_order,
    sorted,      \* what sort_items(items, sort_by, sort_order) returned or raised
    heap,        \* the list objects in memory: heap[1] is the backend's list
    cur,         \* the list object that main's variable `items` refers to
    calls,       \* the number of apply_filters and sort_items calls made on it
    date_str,    \* the argument of _parse_odata_date
    parsed,      \* what _parse_odata_date(date_str) returned or raised
    call,        \* the arguments of a search_datahub call
    args,        \* the command line as argparse reads it
    env,         \* what the credential command and the network will answer
    events,      \* the external calls started and the errors reported, in order
    token,       \* what get_fabric_token returned
    result,      \* what search_datahub returned or raised
    status,      \* the exit status of the process, None (Null) until it ends
    output_format, \* the mode given to format_output
    formatted    \* what format_output returned or raised

list_vars == << items, fspec, filtered, refiltered, sort_by, sort_order, sorted >>
heap_vars == << heap, cur, calls >>
parse_vars == << date_str, parsed >>
run_vars == << call, args, env, events, token, result, status >>
fmt_vars == << output_format, formatted >>

vars == << pc, list_vars, heap_vars, parse_vars, run_vars, fmt_vars >>

----------------------------------------------------------------------------
(* Inputs *)

\* The longest list of records, and the most predicates supplied at once
MaxItems == 2
MaxActive == 2

s_2023_01_01 == << "2", "0", "2", "3", "-", "0", "1", "-", "0", "1" >>
s_2024_06 == << "2", "0", "2", "4", "-", "0", "6" >>
s_2024_06_01 == << "2", "0", "2", "4", "-", "0", "6", "-", "0", "1" >>
s_2024_06_01_time == << "2", "0", "2", "4", "-", "0", "6", "-", "0", "1", "T", "1", "0", ":", "0", "0", ":", "0", "0" >>
s_2024_12_01_time == << "2", "0", "2", "4", "-", "1", "2", "-", "0", "1", "T", "0", "0", ":", "0", "0", ":", "0", "0" >>
\* 2023-11-14T22:13:20, 2024-06-01T00:00:00 and the millisecond before it
s_epoch_2023_11_14 == << "/", "D", "a", "t", "e", "(", "1", "7", "0", "0", "0", "0", "0", "0", "0", "0", "0", "0", "0", ")", "/" >>
s_epoch_2024_06_01 == << "/", "D", "a", "t", "e", "(", "1", "7", "1", "7", "2", "0", "0", "0", "0", "0", "0", "0", "0", ")", "/" >>
s_epoch_2024_05_31 == << "/", "D", "a", "t", "e", "(", "1", "7", "1", "7", "1", "9", "9", "9", "9", "9", "9", "9", "9", ")", "/" >>
s_epoch_abc == << "/", "D", "a", "t", "e", "(", "a", "b", "c", ")", "/" >>

Item(id, displayName, workspaceName, ownerUser, lastVisitedTimeUTC, lastRefreshTime, modifiedDate, artifact) ==
    [ objectId |-> StrV(id), displayName |-> displayName, name |-> Missing,
      workspaceName |-> workspaceName, ownerUser |-> ownerUser,
      lastVisitedTimeUTC |-> lastVisitedTimeUTC, lastRefreshTime |-> lastRefreshTime,
      modifiedDate |-> modifiedDate, artifact |-> artifact ]

\* A record with no field but its id
Bare(id) == Item(id, Missing, Missing, MissingOwner, Missing, Missing, Missing, MissingArtifact)

\* An import model, last visited long ago, refreshed at the boundary's midnight
ItemImport ==
    Item(<< "1" >>, StrV(<< "A", "b" >>), StrV(<< "b" >>), Owner("obj", StrV(<< "a", "b" >>), Missing, Missing),
         StrV(s_2023_01_01), StrV(s_epoch_2024_06_01), StrV(s_2024_06_01_time),
         Artifact("obj", Missing, Missing, Missing, IntV(1), Missing, StrV(<< "F", "6", "4" >>)))

\* A record whose last visit is a bracketed millisecond epoch
ItemEpochVisit ==
    [ Bare(<< "2" >>) EXCEPT !.displayName = StrV(<< "b" >>), !.name = StrV(<< "A", "b" >>),
                             !.lastVisitedTimeUTC = StrV(s_epoch_2023_11_14),
                             !.modifiedDate = StrV(s_epoch_2024_05_31) ]

\* A Direct Lake model whose numeric code is 2, visited and refreshed recently
ItemDirectLake ==
    Item(<< "3" >>, StrV(<< "a" >>), StrV(<< "A", "b" >>), Owner("obj", Missing, StrV(<< "B" >>), StrV(<< "a" >>)),
         StrV(s_2024_12_01_time), Missing, StrV(s_epoch_2023_11_14),
         Artifact("obj", StrV(s_2024_12_01_time), StrV(s_2023_01_01), Missing,
                  IntV(2), BoolV(TRUE), StrV(<< "f", "2" >>)))

\* A DirectQuery model visited on the boundary day, whose refresh instant is its
\* artifact's lastUpdatedDate
ItemDirectQuery ==
    Item(<< "4" >>, StrV(<< >>), Missing, Owner("obj", StrV(<< >>), Missing, StrV(<< "A", "b" >>)),
         StrV(s_2024_06_01_time), StrV(<< >>), Missing,
         Artifact("obj", Missing, StrV(<< >>), StrV(s_epoch_2024_05_31),
                  IntV(2), BoolV(FALSE), Missing))

\* A record whose top-level refresh time does not decode, and hides the artifact's
ItemBadRefresh ==
    Item(<< "5" >>, StrV(<< "B" >>), StrV(<< "a" >>), MissingOwner,
         StrV(<< >>), StrV(s_epoch_abc), StrV(s_2024_06),
         Artifact("obj", StrV(s_2024_12_01_time), Missing, Missing,
                  IntV(3), Missing, StrV(<< >>)))

\* Records with a null where a string or a sub-record is expected
ItemNullName == [ ItemImport EXCEPT !.objectId = StrV(<< "6" >>), !.displayName = Null,
                                    !.lastVisitedTimeUTC = Null ]
ItemNullArtifact == [ ItemDirectLake EXCEPT !.objectId = StrV(<< "7" >>),
                                            !.artifact = NullArtifact,
                                            !.ownerUser = NullOwner ]

ItemPool ==
    { Bare(<< "0" >>), ItemImport, ItemEpochVisit, ItemDirectLake, ItemDirectQuery,
      ItemBadRefresh, ItemNullName, ItemNullArtifact }

\* The lists of at most n records of the pool
ListsUpTo(pool, n) == UNION { [ 1..k -> pool ] : k \in 0..n }

\* The values a caller gives each keyword argument, besides None
TextFilters == { StrV(<< >>), StrV(<< "B" >>) }
DateFilters == { StrV(<< >>), StrV(s_2024_06), StrV(s_2024_06_01) }
StorageFilters ==
    { StrV(s_import), StrV(s_directquery), StrV(s_directlake), StrV(<< "I", "m", "p", "o", "r", "t" >>), StrV(<< "l", "a", "k", "e" >>) }

FilterValues ==
    [ name_filter |-> TextFilters, workspace_filter |-> { StrV(<< "b" >>) },
      owner_filter |-> { StrV(<< "A" >>) },
      visited_since |-> DateFilters, not_visited_since |-> DateFilters,
      refreshed_since |-> DateFilters, not_refreshed_since |-> DateFilters,
      updated_since |-> DateFilters, not_updated_since |-> DateFilters,
      storage_mode |-> StorageFilters, capacity_sku |-> { StrV(<< "f" >>) } ]

FilterNameSet == { FilterNames[i] : i \in 1..Len(FilterNames) }

\* No keyword argument given: every one is None
NoFilters == [ k \in FilterNameSet |-> Null ]

\* The keyword arguments given a value other than None
Supplied(f) == { k \in FilterNameSet : f[k] # Null }

\* The calls that supply at most MaxActive of the eleven arguments
FilterSpecs ==
    UNION { { [ k \in FilterNameSet |-> IF k \in ks THEN g[k] ELSE Null ] :
                g \in { h \in [ ks -> UNION { FilterValues[k] : k \in ks } ] :
                          \A k \in ks : h[k] \in FilterValues[k] } } :
            ks \in { x \in SUBSET FilterNameSet : Cardinality(x) <= MaxActive } }

----------------------------------------------------------------------------
(* Specification of the Predicate Engine: apply_filters on a backend list,  *)
(* and again on its own output.                                            *)

Idle == Working(<< >>)
IdleSorted == Sorted("none", << >>, << >>)

\* The variables of the other specifications at rest
ListIdle ==
    /\ fspec = NoFilters /\ filtered = Idle /\ refiltered = Idle
    /\ sort_by = << >> /\ sort_order = << >> /\ sorted = IdleSorted
HeapIdle == heap = << >> /\ cur = 0 /\ calls = 0
ParseIdle == date_str = Null /\ parsed = NoDT("None")
FormatIdle == output_format = << >> /\ formatted = Formatted("none", "none", << >>)
RunIdle ==
    /\ call = Null /\ args = Null /\ env = Null /\ events = << >>
    /\ token = Null /\ result = SearchRaised("none") /\ status = Null

InitFilter ==
    /\ pc = "start"
    /\ items \in ListsUpTo(ItemPool, MaxItems)
    /\ fspec \in FilterSpecs
    /\ filtered = Idle
    /\ refiltered = Idle
    /\ sort_by = << >>
    /\ sort_order = << >>
    /\ sorted = IdleSorted
    /\ HeapIdle /\ ParseIdle /\ RunIdle /\ FormatIdle

ApplyFilters ==
    /\ pc = "start"
    /\ filtered' = apply_filters(items, fspec)
    /\ pc' = "filtered"
    /\ UNCHANGED << items, fspec, refiltered, sort_by, sort_order, sorted >>
    /\ UNCHANGED << heap_vars, parse_vars, run_vars, fmt_vars >>

ReapplyFilters ==
    /\ pc = "filtered"
    /\ filtered.raised = "none"
    /\ refiltered' = apply_filters(filtered.items, fspec)
    /\ pc' = "refiltered"
    /\ UNCHANGED << items, fspec, filtered, sort_by, sort_order, sorted >>
    /\ UNCHANGED << heap_vars, parse_vars, run_vars, fmt_vars >>

NextFilter == ApplyFilters \/ ReapplyFilters

SpecFilter == InitFilter /\ [][NextFilter]_vars

----------------------------------------------------------------------------
(* Specification of the Sorter: sort_items on a backend list *)

\* The longest list sorted
MaxSortItems == 3

SortByValues == SortFields \cup { << "s", "i", "z", "e" >>, << "N", "a", "m", "e" >>, << >> }
SortOrderValues == { << "a", "s", "c" >>, << "d", "e", "s", "c" >>, << "A", "S", "C" >> }

InitSort ==
    /\ pc = "start"
    /\ items \in ListsUpTo(ItemPool, MaxSortItems)
    /\ fspec = NoFilters
    /\ filtered = Idle
    /\ refiltered = Idle
    /\ sort_by \in SortByValues
    /\ sort_order \in SortOrderValues
    /\ sorted = IdleSorted
    /\ HeapIdle /\ ParseIdle /\ RunIdle /\ FormatIdle

SortItems ==
    /\ pc = "start"
    /\ sorted' = sort_items(items, sort_by, sort_order)
    /\ pc' = "sorted"
    /\ UNCHANGED << items, fspec, filtered, refiltered, sort_by, sort_order >>
    /\ UNCHANGED << heap_vars, parse_vars, run_vars, fmt_vars >>

NextSort == SortItems

SpecSort == InitSort /\ [][NextSort]_vars

----------------------------------------------------------------------------
(* Specification of a run of calls: apply_filters and sort_items, in any    *)
(* order, each on the list the one before returned.                        *)

\* The longest backend list, and the most calls made on it
MaxCallItems == 2
MaxCalls == 2

CallFilters ==
    { NoFilters,
      [ NoFilters EXCEPT !["name_filter"] = StrV(<< "B" >>) ],
      [ NoFilters EXCEPT !["not_visited_since"] = StrV(s_2024_06_01) ],
      [ NoFilters EXCEPT !["visited_since"] = StrV(s_2024_06) ],
      [ NoFilters EXCEPT !["storage_mode"] = StrV(s_directlake) ] }

CallSortBy == { s_name, s_last_visited, << "s", "i", "z", "e" >> }
CallSortOrder == { s_asc, << "d", "e", "s", "c" >> }

InitCalls ==
    /\ pc = "start"
    /\ items \in ListsUpTo(ItemPool, MaxCallItems)
    /\ ListIdle
    /\ heap = << items >> /\ cur = 1 /\ calls = 0
    /\ ParseIdle /\ RunIdle /\ FormatIdle

CallFilter ==
    /\ pc \in { "start", "filter", "sort" }
    /\ calls < MaxCalls
    /\ \E f \in CallFilters :
          /\ fspec' = f
          /\ filtered' = apply_filters(heap[cur], f)
          /\ LET c == filter_call(heap, cur, filtered')
             IN  /\ heap' = c.heap /\ cur' = c.ref
                 /\ pc' = IF c.raised = "none" THEN "filter" ELSE "raised"
    /\ calls' = calls + 1
    /\ UNCHANGED << items, refiltered, sort_by, sort_order, sorted, parse_vars, run_vars, fmt_vars >>

CallSort ==
    /\ pc \in { "start", "filter", "sort" }
    /\ calls < MaxCalls
    /\ \E by \in CallSortBy, order \in CallSortOrder :
          /\ sort_by' = by /\ sort_order' = order
          /\ sorted' = sort_items(heap[cur], by, order)
          /\ LET c == sort_call(heap, cur, by, sorted')
             IN  /\ heap' = c.heap /\ cur' = c.ref
                 /\ pc' = IF c.raised = "none" THEN "sort" ELSE "raised"
    /\ calls' = calls + 1
    /\ UNCHANGED << items, fspec, filtered, refiltered, parse_vars, run_vars, fmt_vars >>

NextCalls == CallFilter \/ CallSort

SpecCalls == InitCalls /\ [][NextCalls]_vars

----------------------------------------------------------------------------
(* Specification of the Temporal Codec: _parse_odata_date on one value *)

\* The longest generated payload between "/Date(" and ")/"
MaxPayload == 3

PayloadChars == { "-", "0", "7", " ", "a" }

\* Every payload of at most MaxPayload characters, and the milliseconds of
\* instants inside, at the edges of and beyond the years 1 to 9999
Payloads ==
    UNION { [ 1..k -> PayloadChars ] : k \in 0..MaxPayload }
    \cup { << "0" >>,
           << "1", "7", "0", "0", "0", "0", "0", "0", "0", "0", "0", "0", "0" >>,
           << "1", "7", "1", "7", "2", "0", "0", "0", "0", "0", "0", "0", "0" >>,
           << "-", "1", "0", "0", "0" >>,
           << "-", "6", "2", "1", "3", "5", "5", "1", "0", "4", "0", "0", "0", "0", "0" >>,
           << "-", "6", "2", "1", "3", "5", "5", "1", "0", "4", "0", "0", "0", "0", "1" >>,
           << "2", "5", "3", "4", "0", "2", "3", "0", "0", "7", "9", "9", "0", "0", "0" >>,
           << "2", "5", "3", "4", "0", "2", "3", "0", "0", "8", "0", "0", "0", "0", "0" >>,
           << "9", "9", "9", "9", "9", "9", "9", "9", "9", "9", "9", "9", "9", "9", "9", "9", "9", "9", "9", "9" >>,
           << "9", "2", "2", "3", "3", "7", "2", "0", "3", "6", "8", "5", "4", "7", "7", "5", "2", "9", "6", "0", "0", "0" >>,
           << "-", "9", "2", "2", "3", "3", "7", "2", "0", "3", "6", "8", "5", "4", "7", "7", "6", "8", "3", "2", "0", "0", "1" >>,
           << "1", "7", "1", "7", "2", "0", "0", "0", "0", "0", "0", "0", "0", " " >>,
           << " ", "1", "7", "1", "7", "1", "9", "9", "9", "9", "9", "9", "9", "9" >>,
           << "a", "b", "c" >> }

Marked(payload) == DatePrefix \o payload \o DateSuffix

PlainStrings ==
    { << "2", "0", "2", "4", "-", "0", "6", "-", "0", "1", "T", "1", "0", ":", "0", "0", ":", "0", "0" >>,
      << "2", "0", "2", "4", "-", "6", "-", "1" >>,
      << "2", "0", "2", "4", "-", "0", "6", "-", "3", "1" >>,
      << " ", "2", "0", "2", "4", "-", "0", "6", "-", "0", "1" >>,
      << "2", "0", "2", "4", "-", "0", "6", "-", "0", "a" >>,
      << "/", "D", "a", "t", "e", "(", "7", ")" >>,
      << "D", "a", "t", "e", "(", "7", ")", "/" >>,
      << "2", "0", "2", "4", "-", "0", "2", "-", "2", "9" >>,
      << "2", "0", "2", "3", "-", "0", "2", "-", "2", "9" >>,
      << "0", "0", "0", "0", "-", "0", "1", "-", "0", "1" >>,
      << "2", "0", "2", "4", "-", "0", "6", "-", "0", "1", ")", "/" >>,
      << "/", "D", "a", "t", "e", "(", "/" >>,
      << "2", "0", "2", "4", "-", "0", "6" >>,
      << "a" >> }

ParseInputs ==
    { Null, EmptyStr } \cup { StrV(Marked(p)) : p \in Payloads } \cup { StrV(x) : x \in PlainStrings }

InitParse ==
    /\ pc = "start"
    /\ items = << >> /\ ListIdle /\ HeapIdle
    /\ date_str \in ParseInputs
    /\ parsed = NoDT("None")
    /\ RunIdle /\ FormatIdle

ParseDate ==
    /\ pc = "start"
    /\ parsed' = _parse_odata_date(date_str)
    /\ pc' = "parsed"
    /\ UNCHANGED << list_vars, heap_vars, date_str, run_vars, fmt_vars >>

NextParse == ParseDate

SpecParse == InitParse /\ [][NextParse]_vars

----------------------------------------------------------------------------
(* Specification of the DataHub client: one search_datahub call *)

s_token == << "t", "o", "k" >>

\* Region keys of the table, and keys that are not in it
SearchRegions == { DEFAULT_REGION, << "u", "k", "-", "s", "o", "u", "t", "h" >>, << "m", "a", "r", "s" >>, << "W", "e", "s", "t", "-", "E", "u", "r", "o", "p", "e" >>, << >> }

\* Lists of labels: none, labels of the registry (two of them aliases of one
\* backend label) and one that is not in it
SearchTypes == { << >>, << << "W", "i", "d", "g", "e", "t" >>, << "M", "o", "d", "e", "l" >> >>, << << "M", "o", "d", "e", "l" >> >>, << << "P", "o", "w", "e", "r", "B", "I", "R", "e", "p", "o", "r", "t" >>, << "R", "e", "p", "o", "r", "t" >> >>, << << "W", "i", "d", "g", "e", "t" >> >> }

PageSizes == { 0 - 1, 200, 1000, 1001, 5000 }

SearchCalls ==
    [ token : { s_token }, item_types : SearchTypes, region : SearchRegions,
      workspace_id : { Null, StrV(<< "w", "1" >>) }, page_size : PageSizes, page_number : { 1 } ]

\* What the network may answer: statuses 200, 201, 401 and 500 with each kind of
\* body, a timeout, and exceptions of the transport, which requests raises with
\* the text of the underlying error
HttpOutcomes ==
    { HttpResponse(st, tx, body[1], body[2]) :
         st \in { 200, 201, 401, 500 }, tx \in { << >>, << "U", "n", "a", "u", "t", "h", "o", "r", "i", "z", "e", "d" >> },
         body \in { << "list", << >> >>, << "list", << ItemImport, ItemEpochVisit >> >>,
                    << "object", << >> >>, << "undecodable", << >> >> } }
    \cup { HttpTimeout, HttpException(<< "C", "o", "n", "n", "e", "c", "t", "i", "o", "n", " ", "r", "e", "f", "u", "s", "e", "d" >>), HttpException(<< "N", "a", "m", "e", " ", "o", "r", " ", "s", "e", "r", "v", "i", "c", "e", " ", "n", "o", "t", " ", "k", "n", "o", "w", "n" >>) }

InitSearch ==
    /\ pc = "start"
    /\ items = << >> /\ ListIdle /\ HeapIdle /\ ParseIdle /\ FormatIdle
    /\ call \in SearchCalls
    /\ env \in [ http : HttpOutcomes ]
    /\ args = Null /\ events = << >> /\ token = Null
    /\ result = SearchRaised("none") /\ status = Null

SearchDatahub ==
    /\ pc = "start"
    /\ LET s == search_datahub(call.token, call.item_types, call.region, call.workspace_id,
                               call.page_size, call.page_number, env.http)
       IN  /\ result' = s.result
           /\ events' = events \o Posted(s.posts)
    /\ pc' = "searched"
    /\ UNCHANGED << list_vars, heap_vars, parse_vars, call, args, env, token, status, fmt_vars >>

NextSearch == SearchDatahub

SpecSearch == InitSearch /\ [][NextSearch]_vars

----------------------------------------------------------------------------
(* Specification of the pipeline: one run of main *)

\* The command lines: an introspection flag or none, a type that is missing,
\* registered or not registered, a region of the table or not, and the options
\* of the filter, sort, limit and output stages within their argparse choices
MainFilters ==
    { NoFilters,
      [ NoFilters EXCEPT !.workspace_filter = StrV(<< "a" >>) ],
      [ NoFilters EXCEPT !.not_visited_since = StrV(s_2024_06) ],
      [ NoFilters EXCEPT !.storage_mode = StrV(s_directquery) ] }

SearchArgs ==
    [ list_types : { FALSE }, list_regions : { FALSE },
      item_type : { Null, StrV(<< "M", "o", "d", "e", "l" >>), StrV(<< "W", "i", "d", "g", "e", "t" >>) },
      region : { DEFAULT_REGION, << "m", "a", "r", "s" >> },
      workspace_id : { Null }, page_size : { 200 },
      filters : MainFilters,
      sort : { Null, StrV(s_name), StrV(s_last_refreshed) }, sort_order : { << "d", "e", "s", "c" >> },
      limit : { Null, IntV(1), IntV(0), IntV(0 - 1) },
      output : { s_table, s_json } ]

\* The flags --list-types and --list-regions, with or without a type and a region
IntrospectionArgs ==
    { [ a EXCEPT !.list_types = flags[1], !.list_regions = flags[2] ] :
        a \in { x \in SearchArgs : x.filters = NoFilters /\ x.sort = Null /\ x.limit = Null /\ x.output = s_table },
        flags \in { << TRUE, FALSE >>, << FALSE, TRUE >>, << TRUE, TRUE >> } }

MainArgs == SearchArgs \cup IntrospectionArgs

\* What the credential command may do
AzOutcomes ==
    { AzExit(0, "object", StrV(s_token)), AzExit(0, "object", EmptyStr), AzExit(0, "object", Null),
      AzExit(0, "object", Missing), AzExit(0, "list", Missing), AzExit(0, "invalid", Missing),
      AzExit(1, "invalid", Missing), AzTimeout, AzNotFound, AzError(<< "P", "e", "r", "m", "i", "s", "s", "i", "o", "n", " ", "d", "e", "n", "i", "e", "d" >>) }

\* What the network may answer to the search request
MainHttpOutcomes ==
    { HttpResponse(200, << >>, "list", << >>),
      HttpResponse(200, << >>, "list", << ItemImport, ItemEpochVisit >>),
      HttpResponse(200, << >>, "list", << ItemNullArtifact, ItemDirectLake >>),
      HttpResponse(200, << >>, "list", << ItemDirectLake, ItemDirectQuery >>),
      HttpResponse(200, << >>, "object", << >>),
      HttpResponse(200, << >>, "undecodable", << >>),
      HttpResponse(401, << "U", "n", "a", "u", "t", "h", "o", "r", "i", "z", "e", "d" >>, "object", << >>),
      HttpTimeout, HttpException(<< "C", "o", "n", "n", "e", "c", "t", "i", "o", "n", " ", "r", "e", "f", "u", "s", "e", "d" >>) }

\* Every outcome of the credential command, and every answer of the network to
\* a run that got its token
MainEnvs ==
    [ az : AzOutcomes, http : { HttpResponse(200, << >>, "list", << >>) } ]
    \cup [ az : { AzExit(0, "object", StrV(s_token)) }, http : MainHttpOutcomes ]

InitMain ==
    /\ pc = "start"
    /\ items = << >> /\ ListIdle /\ HeapIdle /\ ParseIdle /\ FormatIdle
    /\ call = Null
    /\ args \in MainArgs
    /\ env \in MainEnvs
    /\ events = << >> /\ token = Null
    /\ result = SearchRaised("none") /\ status = Null

\* One step of main: the log grows, main goes on or the process ends
Advance(step) ==
    /\ pc' = step.pc
    /\ status' = step.status
    /\ events' = events \o step.events

ListTypes ==
    /\ pc = "start" /\ args.list_types
    /\ \E step \in { main_start(args) } : Advance(step)
    /\ UNCHANGED << list_vars, heap_vars, parse_vars, call, args, env, token, result, fmt_vars >>

ListRegions ==
    /\ pc = "start" /\ ~ args.list_types /\ args.list_regions
    /\ \E step \in { main_start(args) } : Advance(step)
    /\ UNCHANGED << list_vars, heap_vars, parse_vars, call, args, env, token, result, fmt_vars >>

RequireType ==
    /\ pc = "start" /\ ~ args.list_types /\ ~ args.list_regions
    /\ \E step \in { main_start(args) } : Advance(step)
    /\ UNCHANGED << list_vars, heap_vars, parse_vars, call, args, env, token, result, fmt_vars >>

GetToken ==
    /\ pc = "token"
    /\ \E step \in { main_token(env.az) } : Advance(step) /\ token' = step.value
    /\ UNCHANGED << list_vars, heap_vars, parse_vars, call, args, env, result, fmt_vars >>

Search ==
    /\ pc = "search"
    /\ \E step \in { main_search(args, token, env.http) } :
           /\ Advance(step)
           /\ result' = step.value
           /\ items' = IF step.status = Null THEN step.value.items ELSE items
    /\ UNCHANGED << fspec, filtered, refiltered, sort_by, sort_order, sorted, heap_vars, parse_vars, call, args, env, token, fmt_vars >>

\* A stage of lines 876-904 on the current list
Stage(step) ==
    /\ Advance(step)
    /\ items' = IF step.status = IntV(1) THEN items ELSE step.value
    /\ UNCHANGED << fspec, refiltered, sort_by, sort_order, heap_vars, parse_vars, call, args, env, token, result, output_format >>

FilterStage ==
    /\ pc = "filter"
    /\ filtered' = apply_filters(items, args.filters)
    /\ \E step \in { main_filter(filtered') } : Stage(step)
    /\ UNCHANGED << sorted, formatted >>

SortStage ==
    /\ pc = "sort"
    /\ sorted' = IF Truthy(args.sort) THEN sort_items(items, args.sort.s, args.sort_order) ELSE sorted
    /\ \E step \in { main_sort(args, items, sorted') } : Stage(step)
    /\ UNCHANGED << filtered, formatted >>

LimitStage ==
    /\ pc = "limit"
    /\ \E step \in { main_limit(args, items) } : Stage(step)
    /\ UNCHANGED << filtered, sorted, formatted >>

OutputStage ==
    /\ pc = "output"
    /\ formatted' = format_output(items, args.output)
    /\ \E step \in { main_output(items, formatted') } : Stage(step)
    /\ UNCHANGED << filtered, sorted >>

NextMain ==
    \/ ListTypes \/ ListRegions \/ RequireType \/ GetToken \/ Search
    \/ FilterStage \/ SortStage \/ LimitStage \/ OutputStage

SpecMain == InitMain /\ [][NextMain]_vars

----------------------------------------------------------------------------
(* Specification of the formatter: format_output on a list *)

MaxFormatItems == 2

\* Direct Lake models whose numeric code is 1, and is missing
ItemLakeImport == [ ItemImport EXCEPT !.objectId = StrV(<< "8" >>), !.artifact.directLakeMode = BoolV(TRUE) ]
ItemLakeNoCode == [ ItemDirectLake EXCEPT !.objectId = StrV(<< "9" >>), !.artifact.storageMode = Missing ]

FormatPool == ItemPool \cup { ItemLakeImport, ItemLakeNoCode }

InitFormat ==
    /\ pc = "start"
    /\ items \in ListsUpTo(FormatPool, MaxFormatItems)
    /\ ListIdle /\ HeapIdle /\ ParseIdle /\ RunIdle
    /\ output_format \in OutputFormats
    /\ formatted = Formatted("none", "none", << >>)

FormatOutput ==
    /\ pc = "start"
    /\ formatted' = format_output(items, output_format)
    /\ pc' = "formatted"
    /\ UNCHANGED << list_vars, heap_vars, parse_vars, run_vars, output_format >>

NextFormat == FormatOutput

SpecFormat == InitFormat /\ [][NextFormat]_vars

----------------------------------------------------------------------------
(* Claims about apply_filters, checked under SpecFilter *)

Returned(w) == w.raised = "none"

Range(seq) == { seq[i] : i \in 1..Len(seq) }

\* The records of seq that satisfy test, in order
RECURSIVE AtIndices(_, _, _)
AtIndices(seq, S, i) ==
    IF i > Len(seq) THEN << >>
    ELSE (IF i \in S THEN << seq[i] >> ELSE << >>) \o AtIndices(seq, S, i + 1)

Select(seq, test(_)) == AtIndices(seq, { i \in 1..Len(seq) : test(seq[i]) }, 1)

\* a is b with some records left out
RECURSIVE IsSubsequence(_, _)
IsSubsequence(a, b) ==
    IF a = << >> THEN TRUE
    ELSE IF b = << >> THEN FALSE
    ELSE IF a[1] = b[1] THEN IsSubsequence(Tail(a), Tail(b))
    ELSE IsSubsequence(a, Tail(b))

\* apply_filters(items, f) with only the argument k supplied
Alone(k) == apply_filters(items, [ NoFilters EXCEPT ![k] = fspec[k] ])

DateFilterNames ==
    { "visited_since", "not_visited_since", "refreshed_since", "not_refreshed_since",
      "updated_since", "not_updated_since" }
SinceNames == { "visited_since", "refreshed_since", "updated_since" }

\* The not-since argument of a since argument
NotSince(k) ==
    CASE k = "visited_since" -> "not_visited_since"
      [] k = "refreshed_since" -> "not_refreshed_since"
      [] k = "updated_since" -> "not_updated_since"

\* The argument k is supplied and its boundary is a year-month-day date
ValidBoundary(k) == Truthy(fspec[k]) /\ Strptime(fspec[k].s).t = "dt"

\* The first of the refresh source fields that is not empty, in priority order
RefreshSource(r) ==
    LET a == r.artifact
    IN  IF Truthy(r.lastRefreshTime) THEN r.lastRefreshTime
        ELSE IF a.t = "obj" /\ Truthy(a.LastRefreshTime) THEN a.LastRefreshTime
        ELSE IF a.t = "obj" /\ Truthy(a.lastRefreshTime) THEN a.lastRefreshTime
        ELSE IF a.t = "obj" /\ Truthy(a.lastUpdatedDate) THEN a.lastUpdatedDate
        ELSE Null

\* The instant the temporal filter k targets in the record r, or "None" when the
\* record lacks it: the day of a last visit, the decoded refresh or modification time
TargetInstant(r, k) ==
    IF k \in { "visited_since", "not_visited_since" }
    THEN IF Truthy(r.lastVisitedTimeUTC)
              /\ Strptime(Prefix(r.lastVisitedTimeUTC.s, 10)).t = "dt"
         THEN Strptime(Prefix(r.lastVisitedTimeUTC.s, 10)) ELSE NoDT("None")
    ELSE IF k \in { "refreshed_since", "not_refreshed_since" }
    THEN _parse_odata_date(RefreshSource(r))
    ELSE _parse_odata_date(IF r.modifiedDate.t = "missing" THEN Null ELSE r.modifiedDate)

\* The record r is on the side of the boundary that the temporal filter k asks for
OnSide(r, k) ==
    LET dt == TargetInstant(r, k)
        b  == Strptime(fspec[k].s)
    IN  dt.t = "dt" /\ (IF k \in SinceNames THEN DtGE(dt, b) ELSE DtLT(dt, b))

\* C1: filtering the output of apply_filters again with the same FilterSpec
\* returns the same list.
C1_Idempotent ==
    pc = "refiltered" => Returned(refiltered) /\ refiltered.items = filtered.items

\* C2: when every supplied predicate can be applied alone, the output of
\* apply_filters is the input records that each predicate alone keeps.
C2_Conjunction ==
    (pc = "filtered" /\ Returned(filtered)
        /\ \A k \in Supplied(fspec) : Returned(Alone(k)))
    => filtered.items =
         Select(items, LAMBDA r : \A k \in Supplied(fspec) : r \in Range(Alone(k).items))

\* C3: the output of apply_filters is the input with some records left out:
\* every record of the output is a record of the input, none is added or repeated.
C3_Subset ==
    (pc = "filtered" /\ Returned(filtered)) => IsSubsequence(filtered.items, items)

\* C3's case: two predicates supplied, one of them skipped with a warning, and the
\* output is a proper, non-empty part of the input.
C3_Witness ==
    /\ pc = "filtered" /\ Returned(filtered)
    /\ Cardinality(Supplied(fspec)) = 2
    /\ Len(filtered.warnings) = 1
    /\ Len(items) = 2 /\ Len(filtered.items) = 1

\* The record r carries no timestamp for the temporal filter k: the field is
\* absent, null or empty
LacksTimestamp(r, k) ==
    IF k \in { "visited_since", "not_visited_since" } THEN ~ Truthy(r.lastVisitedTimeUTC)
    ELSE IF k \in { "refreshed_since", "not_refreshed_since" } THEN RefreshSource(r) = Null
    ELSE ~ Truthy(r.modifiedDate)

\* C4: with a temporal filter whose boundary is valid, no record of the output
\* lacks the timestamp that the filter targets.
C4_NoRecordWithoutInstant ==
    (pc = "filtered" /\ Returned(filtered))
    => \A k \in DateFilterNames :
          ValidBoundary(k) =>
             \A r \in Range(filtered.items) : ~ LacksTimestamp(r, k)

\* C5: a since filter alone keeps exactly the records whose instant is on or after
\* the boundary, the not-since filter alone exactly those strictly before it, and
\* for one boundary the two outputs share no record.
C5_SinceAndNotSince ==
    (pc = "filtered" /\ Returned(filtered))
    => \A k \in DateFilterNames :
          (Supplied(fspec) = { k } /\ ValidBoundary(k))
          => /\ filtered.items = Select(items, LAMBDA r : OnSide(r, k))
             /\ k \in SinceNames =>
                  LET other == apply_filters(items,
                                 [ NoFilters EXCEPT ![NotSince(k)] = fspec[k] ])
                  IN  Returned(other)
                      => Range(other.items) \cap Range(filtered.items) = { }

\* C6: with a valid visited-since or not-visited-since boundary the call does not
\* fail on a malformed last-visited value, the record that carries it is excluded,
\* and every record of the output has passed the test against the boundary.
C6_MalformedVisitExcluded ==
    pc = "filtered"
    => \A k \in { "visited_since", "not_visited_since" } :
          ValidBoundary(k) =>
             /\ filtered.raised # "ValueError"
             /\ Returned(filtered) => \A r \in Range(filtered.items) : OnSide(r, k)

\* The call with the argument k left out
Omitting(k) == apply_filters(items, [ fspec EXCEPT ![k] = Null ])

\* The argument k is supplied with a boundary that is no year-month-day date
InvalidBoundary(k) == fspec[k] # Null /\ Strptime(fspec[k].s).t # "dt"

\* The call ends as it does with the argument k left out
SameAsOmitting(k) ==
    /\ filtered.raised = Omitting(k).raised
    /\ Returned(filtered) => filtered.items = Omitting(k).items

\* C7 as stated: a temporal filter whose boundary is not a valid date is reported
\* with a warning and skipped, and the call ends as it does without that filter.
C7_InvalidBoundary_AsStated ==
    pc = "filtered"
    => \A k \in DateFilterNames :
          InvalidBoundary(k) =>
             /\ SameAsOmitting(k)
             /\ Returned(filtered) => k \in Range(filtered.warnings)

\* C7, amended: a temporal filter whose boundary is not a valid date is skipped
\* and the call ends as it does without that filter; the warning is reported when
\* the boundary is not empty, and an empty boundary is skipped without one.
C7_InvalidBoundarySkipped ==
    pc = "filtered"
    => \A k \in DateFilterNames :
          InvalidBoundary(k) =>
             /\ SameAsOmitting(k)
             /\ Returned(filtered) =>
                  (k \in Range(filtered.warnings) <=> fspec[k].s # << >>)

\* C7's case: one malformed, non-empty boundary is reported and skipped while
\* another predicate of the same call has dropped a record.
C7_Witness ==
    /\ pc = "filtered" /\ Returned(filtered)
    /\ \E k \in DateFilterNames :
          InvalidBoundary(k) /\ fspec[k].s # << >> /\ filtered.warnings = << k >>
    /\ Cardinality(Supplied(fspec)) = 2
    /\ Len(items) = 2 /\ Len(filtered.items) = 1

HasArtifact(r) == r.artifact.t = "obj"
StorageCode(r) == r.artifact.storageMode
DirectLakeFlag(r) == r.artifact.directLakeMode = BoolV(TRUE)

StorageModeNames == { s_import, s_directquery, s_directlake }

\* What a record kept under the storage-mode value v must be
KeptUnder(r, v) ==
    /\ HasArtifact(r)
    /\ v = s_import => StorageCode(r) = IntV(1)
    /\ v = s_directquery => StorageCode(r) = IntV(2)
    /\ v = s_directlake => DirectLakeFlag(r)

----------------------------------------------------------------------------
(* Claims about sort_items, checked under SpecSort *)

Ascending == sort_order \in { << "a", "s", "c" >>, << "A", "S", "C" >> }
Descending == sort_order = << "d", "e", "s", "c" >>

\* The key sort_items compares the record r by
KeyOf(r) == sort_key(r, sort_by).s

IsPermutation(order, n) ==
    /\ Len(order) = n
    /\ \A p \in 1..n : \E i \in 1..n : order[i] = p

\* sorted.items is the input read in the order sorted.order
OutputIsInputReordered ==
    /\ IsPermutation(sorted.order, Len(items))
    /\ Len(sorted.items) = Len(items)
    /\ \A i \in 1..Len(items) : sorted.items[i] = items[sorted.order[i]]

\* C9: for each of the six sort fields and in both directions, two records with
\* equal sort keys stand in the output in the order they had in the input.
C9_Stable ==
    (pc = "sorted" /\ Returned(sorted) /\ sort_by \in SortFields)
    => /\ OutputIsInputReordered
       /\ \A i, j \in 1..Len(sorted.order) :
             (i < j /\ KeyOf(sorted.items[i]) = KeyOf(sorted.items[j]))
             => sorted.order[i] < sorted.order[j]

\* C9's case: a descending sort of three records, two of them different records
\* with the same key, which moved the third from behind them to before them.
C9_Witness ==
    /\ pc = "sorted" /\ Returned(sorted) /\ sort_by \in SortFields /\ Descending
    /\ Len(items) = 3
    /\ items[1] # items[2] /\ KeyOf(items[1]) = KeyOf(items[2])
    /\ StrLess(KeyOf(items[1]), KeyOf(items[3]))
    /\ sorted.order = << 3, 1, 2 >>

\* The value sort_by targets in the record r: Missing when the record lacks it
SortTarget(r) ==
    CASE sort_by = s_name -> r.displayName
      [] sort_by = s_workspace -> r.workspaceName
      [] sort_by = s_last_visited -> r.lastVisitedTimeUTC
      [] sort_by = s_last_modified -> r.modifiedDate
      [] sort_by = s_owner -> IF r.ownerUser.t = "obj" THEN r.ownerUser.emailAddress ELSE Missing
      [] sort_by = s_last_refreshed -> IF RefreshSource(r) = Null THEN Missing ELSE RefreshSource(r)

LacksField(r) == SortTarget(r) = Missing

KeysInOrder ==
    /\ Ascending => \A i, j \in 1..Len(sorted.items) :
          i < j => ~ StrLess(KeyOf(sorted.items[j]), KeyOf(sorted.items[i]))
    /\ Descending => \A i, j \in 1..Len(sorted.items) :
          i < j => ~ StrLess(KeyOf(sorted.items[i]), KeyOf(sorted.items[j]))

\* C10 as stated: the output is a permutation of the input with its keys in order,
\* a record lacking the field has the empty key, and under ascending order every
\* record lacking the field stands before every record that has it.
C10_Ordered_AsStated ==
    (pc = "sorted" /\ Returned(sorted) /\ sort_by \in SortFields)
    => /\ OutputIsInputReordered
       /\ KeysInOrder
       /\ \A r \in Range(items) : LacksField(r) => KeyOf(r) = << >>
       /\ Ascending => \A i, j \in 1..Len(sorted.items) :
             (LacksField(sorted.items[j]) /\ ~ LacksField(sorted.items[i])) => j < i

\* C10, amended: the same, except that under ascending order a record lacking the
\* field stands before every record whose value for the field is not empty; a
\* record that has the field with an empty value has the same key as one lacking it.
C10_Ordered ==
    (pc = "sorted" /\ Returned(sorted) /\ sort_by \in SortFields)
    => /\ OutputIsInputReordered
       /\ KeysInOrder
       /\ \A r \in Range(items) : LacksField(r) => KeyOf(r) = << >>
       /\ Ascending => \A i, j \in 1..Len(sorted.items) :
             (LacksField(sorted.items[j]) /\ Truthy(SortTarget(sorted.items[i]))) => j < i

\* C10's case: an ascending sort that moved a record lacking the field from the
\* end of the list to before two records with different non-empty values.
C10_Witness ==
    /\ pc = "sorted" /\ Returned(sorted) /\ sort_by \in SortFields /\ Ascending
    /\ Len(items) = 3
    /\ LacksField(items[3])
    /\ Truthy(SortTarget(items[1])) /\ Truthy(SortTarget(items[2]))
    /\ StrLess(KeyOf(items[2]), KeyOf(items[1]))
    /\ sorted.order = << 3, 2, 1 >>

RecognizedNames ==
    { << "n", "a", "m", "e" >>, << "w", "o", "r", "k", "s", "p", "a", "c", "e" >>,
      << "l", "a", "s", "t", "-", "v", "i", "s", "i", "t", "e", "d" >>,
      << "l", "a", "s", "t", "-", "r", "e", "f", "r", "e", "s", "h", "e", "d" >>,
      << "l", "a", "s", "t", "-", "m", "o", "d", "i", "f", "i", "e", "d" >>,
      << "o", "w", "n", "e", "r" >> }

\* C11: for a sort field that is none of the six recognized names, sort_items
\* returns its input, the same records in the same order, and raises nothing,
\* whatever the direction.
C11_UnknownFieldNoOp ==
    (pc = "sorted" /\ sort_by \notin RecognizedNames)
    => /\ Returned(sorted)
       /\ sorted.items = items
       /\ sorted.order = [ i \in 1..Len(items) |-> i ]

\* C11's case: an unknown field with a list that a sort by name would reorder
\* in either direction, and that holds a record whose name is null.
C11_Witness ==
    /\ pc = "sorted" /\ sort_by = << "N", "a", "m", "e" >>
    /\ Len(items) = 3 /\ sorted.items = items
    /\ items[1].displayName = StrV(<< "b" >>)
    /\ items[2].displayName = Null
    /\ items[3].displayName = StrV(<< "A", "b" >>)

----------------------------------------------------------------------------
(* Claims about the list objects, checked under SpecCalls *)

\* C12: no call of apply_filters or sort_items changes a list that existed before
\* it, the backend's list among them: each keeps its records, their order and
\* their field values; and a sort by a recognized field that returns, returns a
\* list object that did not exist before the call.
C12_InputsUntouched ==
    [][ /\ \A ref \in 1..Len(heap) : heap'[ref] = heap[ref]
        /\ heap'[1] = items
        /\ (pc' = "sort" /\ sort_by' \in RecognizedNames) => cur' \notin 1..Len(heap) ]_vars

\* C12's case: two calls, a filter that dropped a record of the backend's list
\* and a sort of what was left by a recognized field, each returning a new list
\* object.
C12_Witness ==
    /\ pc = "sort" /\ sort_by \in RecognizedNames /\ calls = 2
    /\ Len(heap) = 3 /\ cur = 3
    /\ Len(heap[1]) = 2 /\ Len(heap[2]) = 1

----------------------------------------------------------------------------
(* Claims about _parse_odata_date, checked under SpecParse *)

\* The value is a string with the '/Date(' prefix and the ')/' suffix
IsMarked(v) ==
    /\ v.t = "str" /\ Len(v.s) >= 8
    /\ SubSeq(v.s, 1, 6) = << "/", "D", "a", "t", "e", "(" >>
    /\ SubSeq(v.s, Len(v.s) - 1, Len(v.s)) = << ")", "/" >>

PayloadOf(v) == SubSeq(v.s, 7, Len(v.s) - 2)

\* The text of an integer: digits, after an optional minus sign, between optional spaces
IntegerText(p) ==
    \E i, j \in 1..Len(p) :
       /\ i <= j
       /\ \A k \in 1..Len(p) : (k < i \/ k > j) => p[k] = " "
       /\ \A k \in i..j : p[k] \in Digits \/ (k = i /\ k < j /\ p[k] = "-")

\* C13: a marked string is decoded as a millisecond epoch and an unmarked one by
\* its first ten characters as a year-month-day date; the result is None, and
\* nothing is raised, for an absent or empty string, for a marked string whose
\* payload is no integer and for an unmarked one whose first ten characters are
\* no date.
C13_TwoEncodings ==
    pc = "parsed"
    => /\ date_str \in { Null, EmptyStr } => parsed = NoDT("None")
       /\ (IsMarked(date_str) /\ ~ IntegerText(PayloadOf(date_str))) => parsed = NoDT("None")
       /\ date_str = StrV(Marked(<< "0" >>)) => parsed = DT(0, 0)
       /\ date_str = StrV(Marked(<< "1", "7", "1", "7", "2", "0", "0", "0", "0", "0", "0", "0", "0" >>)) => parsed = DT(19875, 0)
       /\ date_str = StrV(Marked(<< " ", "1", "7", "1", "7", "1", "9", "9", "9", "9", "9", "9", "9", "9" >>)) => parsed = DT(19874, 86399999)
       /\ date_str = StrV(Marked(<< "1", "7", "0", "0", "0", "0", "0", "0", "0", "0", "0", "0", "0" >>)) => parsed = DT(19675, 80000000)
       /\ (Truthy(date_str) /\ ~ IsMarked(date_str))
          => /\ parsed = (IF Strptime(Prefix(date_str.s, 10)).t = "dt"
                          THEN Strptime(Prefix(date_str.s, 10)) ELSE NoDT("None"))
             /\ date_str.s = << "2", "0", "2", "4", "-", "0", "6", "-", "0", "1", "T", "1", "0", ":", "0", "0", ":", "0", "0" >> => parsed = DT(19875, 0)
             /\ date_str.s = << "2", "0", "2", "4", "-", "0", "6", "-", "0", "1", ")", "/" >> => parsed = DT(19875, 0)
             /\ date_str.s \in { << "2", "0", "2", "4", "-", "0", "6", "-", "3", "1" >>, << "2", "0", "2", "3", "-", "0", "2", "-", "2", "9" >>, << "/", "D", "a", "t", "e", "(", "7", ")" >> } => parsed = NoDT("None")

\* C13's case: a marked string whose payload has a digit and a letter is
\* reported unparseable.
C13_Witness ==
    /\ pc = "parsed" /\ IsMarked(date_str)
    /\ PayloadOf(date_str) = << "7", "a" >>
    /\ parsed = NoDT("None")

LastInstantMs == << "2", "5", "3", "4", "0", "2", "3", "0", "0", "7", "9", "9", "9", "9", "9" >>

\* The payload is an integer below zero, or beyond the last millisecond of the year 9999
OutOfRange(p) ==
    /\ IntegerText(p)
    /\ PyInt(p).neg \/ (PyInt(p).digits # LastInstantMs /\ DigitsGE(PyInt(p).digits, LastInstantMs))

\* C14: a marked string whose integer is negative or too large for an instant is
\* reported unparseable: the result is None, neither an instant nor an exception.
C14_OutOfRangeUnparseable ==
    (pc = "parsed" /\ IsMarked(date_str) /\ OutOfRange(PayloadOf(date_str)))
    => parsed = NoDT("None")

----------------------------------------------------------------------------
(* Claims about search_datahub, checked under SpecSearch *)

Posts == { i \in 1..Len(events) : events[i].kind = "post" }

\* C15: search_datahub raises nothing: a response that is not 200, a timeout, an
\* exception of the transport and a 200 response whose body is no JSON each give a
\* result with success false and an error message that is not empty, and success
\* is true only for a 200 response.
C15_NeverRaises ==
    pc = "searched"
    => /\ result.raised = "none"
       /\ "success" \in result.keys
       /\ ( \/ env.http.kind # "response"
            \/ env.http.status # 200
            \/ env.http.body = "undecodable" )
          => /\ ~ result.success
             /\ "error" \in result.keys /\ result.error # << >>
       /\ result.success => (Posts # { } /\ env.http.kind = "response" /\ env.http.status = 200)

\* C15's case: a request was sent and answered 200 with a body that is no JSON,
\* and the call returned a failure.
C15_Witness ==
    /\ pc = "searched" /\ Posts # { }
    /\ env.http.kind = "response" /\ env.http.status = 200 /\ env.http.body = "undecodable"
    /\ result.raised = "none" /\ ~ result.success /\ result.error # << >>

\* C16: with a region key that is not in the region table, search_datahub
\* returns a failure and sends no HTTP request.
C16_UnknownRegionNoRequest ==
    (pc = "searched" /\ call.region \notin RegionKeys)
    => /\ result.raised = "none" /\ ~ result.success /\ result.error # << >>
       /\ Posts = { }

\* C16's case: the key differs from a key of the table by its letter case only,
\* and the network would have answered 200 with two records.
C16_Witness ==
    /\ pc = "searched" /\ call.region = << "W", "e", "s", "t", "-", "E", "u", "r", "o", "p", "e" >>
    /\ env.http.kind = "response" /\ env.http.status = 200 /\ Len(env.http.list) = 2
    /\ ~ result.success /\ events = << >>

----------------------------------------------------------------------------
(* Claims about main, checked under SpecMain *)

\* The places of the log where an event of one kind stands
Kind(k) == { i \in 1..Len(events) : events[i].kind = k }

\* A run that is neither --list-types nor --list-regions and names a type
FullInvocation == ~ args.list_types /\ ~ args.list_regions /\ Truthy(args.item_type)

\* get_fabric_token was called and returned nothing to search with
TokenFailed == Kind("az") # { } /\ ~ Truthy(token)

\* search_datahub was called and returned a failure
SearchFailed == "success" \in result.keys /\ ~ result.success

\* C17: in a full invocation with a region key that is not in the table, no
\* external call is ever started, neither the credential command nor the search
\* request, and the run ends with the error reported and a status that is not 0.
C17_UnknownRegionNoExternalCall ==
    (FullInvocation /\ args.region \notin RegionKeys)
    => /\ Kind("az") = { } /\ Kind("post") = { }
       /\ pc = "done" => (status # IntV(0) /\ Kind("error") # { })

\* C18: a run issues at most one search request; after a failed search the run
\* has ended with the failure reported exactly once, as the last line, with no
\* further request and without the filter, sort or format stage having run.
C18_OneSearchNoRetry ==
    /\ Cardinality(Kind("post")) <= 1
    /\ SearchFailed
       => /\ pc = "done" /\ status = IntV(1)
          /\ Cardinality(Kind("error")) = 1
          /\ events[Len(events)] = Event("error", << "E", "r", "r", "o", "r", ":", " " >> \o result.error)
          /\ Kind("stage") = { }

\* C18's case: the one request was sent, the backend refused it, and the run ended.
C18_Witness ==
    /\ SearchFailed /\ Cardinality(Kind("post")) = 1
    /\ env.http.kind = "response" /\ env.http.status = 401
    /\ pc = "done"

\* C19: when token acquisition fails, get_fabric_token returns no token and the
\* run reports the failure and ends with a status that is not 0, with no search
\* request issued.
C19_TokenFailureReported ==
    TokenFailed
    => /\ pc = "done" /\ status # IntV(0)
       /\ Kind("post") = { }
       /\ Kind("error") # { }

\* C20: a run that has ended has status 0 exactly when its last act was to print
\* the formatted items (be there none left after filtering) or the introspection
\* listing; it has another status whenever, outside the introspection modes, the
\* token was not acquired, the region is not in the table or the search failed;
\* and no status is set before the run ends.
C20_ExitStatus ==
    /\ pc # "done" => status = Null
    /\ pc = "done"
       => /\ status \in { IntV(0), IntV(1), IntV(2) }
          /\ status = IntV(0) <=> (events # << >> /\ events[Len(events)].kind = "stdout")
          /\ ( /\ ~ args.list_types /\ ~ args.list_regions
               /\ (TokenFailed \/ args.region \notin RegionKeys \/ SearchFailed) )
             => status # IntV(0)

\* C20's case: the search returned two records, the filter left none, and the
\* run printed its output and ended with status 0.
C20_Witness ==
    /\ pc = "done" /\ status = IntV(0)
    /\ result.success /\ result.count = 2 /\ items = << >>
    /\ Kind("stage") # { }

\* C21: a run with --list-types or --list-regions never starts the credential
\* command or a search request and ends with status 0, whatever type and region
\* it is given (none, an unregistered type, a region that is not in the table).
C21_IntrospectionBypassesNetwork ==
    (args.list_types \/ args.list_regions)
    => /\ Kind("az") = { } /\ Kind("post") = { }
       /\ pc \in { "start", "done" }
       /\ pc = "done" => (status = IntV(0) /\ Kind("stdout") # { } /\ Kind("error") = { })

\* C21's case: --list-regions with no type and a region that is not in the table,
\* while the credential command would have failed; the listing was printed.
C21_Witness ==
    /\ pc = "done" /\ args.list_regions /\ ~ args.list_types
    /\ ~ Truthy(args.item_type) /\ args.region \notin RegionKeys
    /\ env.az.kind = "not_found"
    /\ status = IntV(0) /\ Kind("stdout") # { }

\* The request that the call sent, when it sent one
Sent == events[1].detail

\* C22: the request carries one backend label per public label, in the same
\* order: the backend label of the registry's row when the label has a row, and
\* the label lower-cased when it has none; no label fails or is dropped.
C22_TypeResolution ==
    (pc = "searched" /\ Kind("post") # { })
    => /\ Sent.supportedTypes = call.item_types
       /\ Len(Sent.tridentSupportedTypes) = Len(call.item_types)
       /\ \A i \in 1..Len(call.item_types) :
             LET label == call.item_types[i]
                 rows == { row \in ItemTypeRows : row[1] = label }
             IN  /\ rows # { } => \A row \in rows : Sent.tridentSupportedTypes[i] = row[2]
                 /\ rows = { } => Sent.tridentSupportedTypes[i] = Lower(label)

\* C22's case: the two aliases 'PowerBIReport' and 'Report' were sent with the
\* same backend label, which is not the lower-cased alias.
C22_Witness ==
    /\ pc = "searched" /\ Kind("post") # { }
    /\ call.item_types = << << "P", "o", "w", "e", "r", "B", "I", "R", "e", "p", "o", "r", "t" >>, << "R", "e", "p", "o", "r", "t" >> >>
    /\ Sent.tridentSupportedTypes = << << "r", "e", "p", "o", "r", "t" >>, << "r", "e", "p", "o", "r", "t" >> >>

\* C23: with a region of the table the request is issued whatever the page size
\* asked for, and the page size it carries is never above 1000: 1000 when more
\* was asked for, and the value asked for otherwise.
C23_PageSizeClamped ==
    (pc = "searched" /\ call.region \in RegionKeys)
    => /\ Cardinality(Kind("post")) = 1
       /\ Sent.pageSize <= 1000
       /\ call.page_size > 1000 => Sent.pageSize = 1000
       /\ call.page_size <= 1000 => Sent.pageSize = call.page_size

\* C23's case: 5000 records a page were asked for, the request went out with
\* 1000 and the backend answered it.
C23_Witness ==
    /\ pc = "searched" /\ call.page_size = 5000
    /\ Kind("post") # { } /\ Sent.pageSize = 1000
    /\ result.success

----------------------------------------------------------------------------
(* Claims about format_output, checked under SpecFormat *)

\* C24: for the empty list format_output returns the text 'No items found.' in
\* the table, brief and detailed modes, and in the structured mode a JSON list
\* with no record.
C24_EmptyList ==
    (pc = "formatted" /\ items = << >>)
    => /\ formatted.raised = "none" /\ formatted.rows = << >>
       /\ output_format \in { s_table, s_brief, s_detailed } => formatted.shape = "No items found."
       /\ output_format = s_json => formatted.shape = "json"

\* C24's case: the empty list in the structured mode
C24_Witness ==
    /\ pc = "formatted" /\ items = << >> /\ output_format = s_json
    /\ formatted = Formatted("none", "json", << >>)

\* The label the storage mode of the record r is to be shown with
StorageLabel(r) ==
    IF HasArtifact(r) /\ DirectLakeFlag(r) THEN s_DirectLake
    ELSE IF HasArtifact(r) /\ StorageCode(r) = IntV(1) THEN s_Import
    ELSE IF HasArtifact(r) /\ StorageCode(r) = IntV(2) THEN s_DirectQuery
    ELSE s_Unknown

\* The modes whose text holds the storage-mode label
ShowsStorage == output_format \in { s_json, s_detailed }

\* The label in the row of the i-th record
ShownLabel(i) ==
    IF output_format = s_json THEN formatted.rows[i].storageMode.s ELSE formatted.rows[i].storage

\* C25: the label written for a record is 'DirectLake' when its direct-lake flag
\* is set, whatever its numeric code; otherwise 'Import' for code 1, 'DirectQuery'
\* for code 2, and 'Unknown' for another code, no code or no artifact sub-record.
C25_StorageLabel ==
    (pc = "formatted" /\ ShowsStorage /\ formatted.raised = "none")
    => \A i \in 1..Len(items) : ShownLabel(i) = StorageLabel(items[i])

\* C25's case: a record with the flag set and code 1 next to a record with no
\* artifact sub-record, written 'DirectLake' and 'Unknown'.
C25_Witness ==
    /\ pc = "formatted" /\ output_format = s_detailed /\ formatted.raised = "none"
    /\ items = << ItemLakeImport, Bare(<< "0" >>) >>
    /\ formatted.rows[1].storage = s_DirectLake /\ formatted.rows[2].storage = s_Unknown

\* The record r with an empty value in place of each null the display name, the
\* last visit, the last modification and the owner sub-record hold
Emptied(r) ==
    [ r EXCEPT !.displayName = IF r.displayName = Null THEN EmptyStr ELSE r.displayName,
               !.lastVisitedTimeUTC = IF r.lastVisitedTimeUTC = Null THEN EmptyStr ELSE r.lastVisitedTimeUTC,
               !.modifiedDate = IF r.modifiedDate = Null THEN EmptyStr ELSE r.modifiedDate,
               !.ownerUser = IF r.ownerUser = NullOwner THEN EmptyOwner ELSE r.ownerUser ]

\* A null display name, last visit, last modification or owner sub-record
HasNullField(r) == Emptied(r) # r

\* C26 (as stated): format_output completes without error on a list with a
\* record whose display name, last visit, last modification or owner sub-record
\* is present but null, and writes the list as if those fields were empty.
C26_NullFieldsRendered ==
    (/\ pc = "formatted"
     /\ \E i \in 1..Len(items) : HasNullField(items[i])
     /\ \A i \in 1..Len(items) : items[i].artifact # NullArtifact)
    => /\ formatted.raised = "none"
       /\ formatted = format_output([ i \in 1..Len(items) |-> Emptied(items[i]) ], output_format)

----------------------------------------------------------------------------
(* The refresh instant of one record, as the filters, the sorter and the
   structured output derive it *)

\* The values of the four refresh fields
TopRefreshValues == { Missing, Null, EmptyStr, StrV(s_2024_06_01_time), StrV(s_epoch_abc) }
CapRefreshValues == { Missing, EmptyStr, StrV(s_epoch_2023_11_14) }
LowRefreshValues == { Missing, StrV(s_2023_01_01) }
UpdatedValues == { Missing, Null, StrV(s_epoch_2024_05_31) }

RefreshRecords ==
    { [ Bare(<< "1" >>) EXCEPT !.lastRefreshTime = top,
                               !.artifact = Artifact(t, cap, low, upd, IntV(1), Missing, Missing) ] :
        top \in TopRefreshValues, cap \in CapRefreshValues, low \in LowRefreshValues,
        upd \in UpdatedValues, t \in { "obj", "null" } }
    \cup { [ Bare(<< "1" >>) EXCEPT !.lastRefreshTime = top ] : top \in TopRefreshValues }

InitRefresh ==
    /\ pc = "start"
    /\ \E r \in RefreshRecords : items = << r >>
    /\ ListIdle /\ HeapIdle /\ ParseIdle /\ RunIdle /\ FormatIdle

\* get_refresh_datetime(item) of the two refresh filters, lines 408-419 and 431-442
RefreshOfFilter ==
    /\ pc = "start"
    /\ parsed' = get_refresh_datetime(items[1])
    /\ pc' = "filter"
    /\ UNCHANGED << items, list_vars, heap_vars, date_str, run_vars, fmt_vars >>

\* The key of the last-refreshed sort, line 561
RefreshOfSort ==
    /\ pc = "filter"
    /\ date_str' = sort_key(items[1], s_last_refreshed)
    /\ pc' = "sort"
    /\ UNCHANGED << items, list_vars, heap_vars, parsed, run_vars, fmt_vars >>

\* The structured output of the record, lines 586-604
RefreshOfOutput ==
    /\ pc = "sort"
    /\ output_format' = s_json
    /\ formatted' = format_output(items, s_json)
    /\ pc' = "derived"
    /\ UNCHANGED << items, list_vars, heap_vars, parse_vars, run_vars >>

NextRefresh == RefreshOfFilter \/ RefreshOfSort \/ RefreshOfOutput

SpecRefresh == InitRefresh /\ [][NextRefresh]_vars

----------------------------------------------------------------------------
(* Claims about the refresh instant, checked under SpecRefresh *)

\* C27: the refresh filters, the last-refreshed sort key and the structured
\* output's lastRefreshed read the same source field of a record: the first
\* non-empty of top-level lastRefreshTime, artifact LastRefreshTime, artifact
\* lastRefreshTime, artifact lastUpdatedDate.  The filters decode it, the sort
\* key is its text (the empty text when there is none), the output writes the
\* decoded instant; the filters and the sort key fail on the same records.
C27_RefreshDerivedIdentically ==
    pc = "derived"
    => LET src == RefreshSource(items[1])
       IN  /\ parsed.t \in { "dt", "None" } => parsed = _parse_odata_date(src)
           /\ date_str.t = "str" => date_str = (IF Truthy(src) THEN src ELSE EmptyStr)
           /\ formatted.raised = "none" => formatted.rows[1].lastRefreshed = _parse_odata_date(src)
           /\ parsed.t = "AttributeError" <=> date_str.t = "AttributeError"
           /\ parsed.t = "AttributeError" => formatted.raised = "AttributeError"

\* C27's case: a record whose top-level field is the empty text and whose
\* artifact has no LastRefreshTime, but a lastRefreshTime and a lastUpdatedDate:
\* the three read the artifact's lastRefreshTime.
C27_Witness ==
    /\ pc = "derived"
    /\ items[1].lastRefreshTime = EmptyStr
    /\ items[1].artifact.t = "obj"
    /\ items[1].artifact.LastRefreshTime = Missing
    /\ items[1].artifact.lastRefreshTime = StrV(s_2023_01_01)
    /\ items[1].artifact.lastUpdatedDate = StrV(s_epoch_2024_05_31)
    /\ date_str = StrV(s_2023_01_01)
    /\ parsed = _parse_odata_date(StrV(s_2023_01_01)) /\ parsed.t = "dt"
    /\ formatted.raised = "none" /\ formatted.rows[1].lastRefreshed = parsed

----------------------------------------------------------------------------
(* Claims about the order of dates, checked under SpecSort *)

DateSortFields == { s_last_visited, s_last_refreshed, s_last_modified }

\* The instant the date string sort_by targets in the record r decodes to
DecodedTarget(r) ==
    IF Truthy(SortTarget(r)) THEN _parse_odata_date(SortTarget(r)) ELSE NoDT("None")

\* C28 (as stated): an ascending sort by last-visited, last-refreshed or
\* last-modified is chronological: of two records whose date strings both decode,
\* the one with the earlier instant never stands after the one with the later.
C28_Chronological ==
    (pc = "sorted" /\ Returned(sorted) /\ sort_by \in DateSortFields /\ Ascending)
    => \A i, j \in 1..Len(sorted.items) :
          (/\ i < j
           /\ DecodedTarget(sorted.items[i]).t = "dt"
           /\ DecodedTarget(sorted.items[j]).t = "dt")
          => DtGE(DecodedTarget(sorted.items[j]), DecodedTarget(sorted.items[i]))

----------------------------------------------------------------------------
(* Claims about the whole pipeline's output, checked under SpecMain *)

\* The run went through every stage and printed its output
Printed == pc = "done" /\ status = IntV(0) /\ formatted.raised = "none"

\* The label the storage-mode filter value v stands for
LabelOf(v) ==
    CASE v = s_import -> s_Import
      [] v = s_directquery -> s_DirectQuery
      [] v = s_directlake -> s_DirectLake

\* C29 (as stated): every record kept by the storage-mode filter with value
\* 'import', 'directquery' or 'directlake' is written with the label 'Import',
\* 'DirectQuery' or 'DirectLake' respectively.
C29_FilterAndLabelAgree ==
    (/\ Printed /\ args.output = s_json
     /\ Truthy(args.filters.storage_mode)
     /\ args.filters.storage_mode.s \in StorageModeNames)
    => \A i \in 1..Len(formatted.rows) :
          formatted.rows[i].storageMode = StrV(LabelOf(args.filters.storage_mode.s))

\* The list the limit is applied to: the backend's list, filtered and sorted
BeforeLimit == IF Truthy(args.sort) THEN sorted.items ELSE filtered.items

\* The first n records of seq, none when n is not positive
FirstN(seq, n) == SubSeq(seq, 1, IF n < 0 THEN 0 ELSE Min(n, Len(seq)))

\* C30 (as stated): with a limit N, whatever integer N is, the list written is
\* the first N records of the filtered, sorted list, and never holds more than N
\* records (none when N is zero or negative).
C30_LimitApplied ==
    (Printed /\ args.limit # Null)
    => /\ items = FirstN(BeforeLimit, args.limit.n)
       /\ Len(formatted.rows) = Len(items)
       /\ Len(formatted.rows) <= (IF args.limit.n < 0 THEN 0 ELSE args.limit.n)

====
